---- MODULE Spec2Model ----
(***************************************************************************)
(* Bitrix worker: the queue consumer of src/index.ts (startWorker and the  *)
(* processSubmission pipeline), the POST /screen-deal handler of           *)
(* src/routes/screen-deal.ts with evaluateDealAndSaveResult of             *)
(* src/lib/actions/evaluate-deal.ts, and processContentChunks as a         *)
(* function of an arbitrary chunk sequence.                                *)
(***************************************************************************)
EXTENDS Integers, Sequences, FiniteSets, Bags, TLC

(***************************************************************************)
(* Bounds of the model.                                                    *)
(***************************************************************************)
MaxQueue == 2
MaxContentLen == 2
MaxChunks == 3

(***************************************************************************)
(* Program constants.                                                      *)
(***************************************************************************)
MAX_RETRIES == 3
REDIS_PUBLISH_CHANNEL == "problem_done"
SECTION_DELIMITER == "\n\n=== Next Section ===\n\n"

Null == "null"

(***************************************************************************)
(* Input domains.                                                          *)
(***************************************************************************)
Ids == {"d1", "d2"}
NoId == "none"
\* The k-th character of a content body.
CharAt(k) == IF k % 2 = 1 THEN "a" ELSE "b"
RECURSIVE TextOfLen(_)
TextOfLen(n) == IF n = 0 THEN "" ELSE TextOfLen(n - 1) \o CharAt(n)
Contents == {TextOfLen(n) : n \in 0..MaxContentLen}

\* A payload of the queue: the JSON text of a Submission, text that is not JSON,
\* or the empty string.
JsonPayload(id, content) ==
    [kind |-> "json", id |-> id, userId |-> "u1", name |-> "n1", screenerContent |-> content]
BadPayload == [kind |-> "garbage"]
EmptyPayload == [kind |-> "empty"]
\* lPop's answer for an empty list.
NoPayload == [kind |-> "null"]
Payloads ==
    {JsonPayload(id, c) : id \in Ids, c \in Contents} \cup {BadPayload, EmptyPayload}

\* if (submission): false for null and for the empty string.
Truthy(p) == p.kind \notin {"null", "empty"}

\* JSON.parse(submission): throws on text that is not JSON.
JsonParse(p) ==
    IF p.kind = "json"
    THEN [ok |-> TRUE,
          value |-> [id |-> p.id, userId |-> p.userId, name |-> p.name,
                     screenerContent |-> p.screenerContent]]
    ELSE [ok |-> FALSE, value |-> Null]

\* The lists the consumer can find at start: what producers have pushed.
RECURSIVE SeqsUpTo(_, _)
SeqsUpTo(S, n) ==
    IF n = 0 THEN {<<>>}
    ELSE SeqsUpTo(S, n - 1)
            \cup {Append(q, x) : q \in {r \in SeqsUpTo(S, n - 1) : Len(r) = n - 1}, x \in S}
Queues == SeqsUpTo(Payloads, MaxQueue)

NoSubmission == [id |-> NoId, userId |-> NoId, name |-> NoId, screenerContent |-> ""]

(***************************************************************************)
(* splitContentIntoChunks (lib/utils, not among the sources): consecutive  *)
(* segments of at most ChunkSize characters, in order; no chunk for empty  *)
(* content.                                                                *)
(***************************************************************************)
ChunkSize == 1
RECURSIVE SegmentText(_, _)
\* The characters from position `from` to position `to` of a content body.
SegmentText(from, to) == IF from > to THEN "" ELSE CharAt(from) \o SegmentText(from + 1, to)
NumChunks(content) == (Len(content) + ChunkSize - 1) \div ChunkSize
Min(a, b) == IF a <= b THEN a ELSE b
splitContentIntoChunks(content) ==
    [k \in 1..NumChunks(content) |->
        SegmentText((k - 1) * ChunkSize + 1, Min(k * ChunkSize, Len(content)))]

(***************************************************************************)
(* The evaluation capability: generateText answers a text for the chunk or *)
(* throws; generateObject answers a verdict that satisfies the schema or   *)
(* throws.                                                                 *)
(***************************************************************************)
GenText(chunk) == "S(" \o chunk \o ")"
ERROR_SENTINEL == "[Error processing chunk]"
ErrorSentinelNumbered(i) == "[Error processing chunk " \o ToString(i) \o "]"
\* A null AIScreeningResult.
NoVerdict == [title |-> Null, score |-> 0, sentiment |-> Null, explanation |-> Null]
\* The objects of the schema the consumer's generateObject is taken to answer;
\* score in tenths.
Verdicts ==
    {[title |-> "t", score |-> 70, sentiment |-> "POSITIVE", explanation |-> "e"]}

\* !chunk: an undefined element or the empty string.
Falsy(chunk) == chunk = ""

\* summaries.join("\n\n=== Next Section ===\n\n")
RECURSIVE Join(_)
Join(ss) ==
    IF Len(ss) = 0 THEN ""
    ELSE IF Len(ss) = 1 THEN ss[1]
    ELSE ss[1] \o SECTION_DELIMITER \o Join(Tail(ss))

\* Mutant: a summarization that throws leaves nothing.
ChunkIterationDropFailed(sums, chunk, i, throws) ==
    IF Falsy(chunk) \/ throws THEN sums ELSE Append(sums, GenText(chunk))

\* One iteration of the loop of processContentChunks of index.ts, for the chunk at
\* (1-based) position i: a falsy chunk is skipped, a summarization that throws
\* leaves the sentinel.
ChunkIteration(sums, chunk, i, throws) ==
    IF Falsy(chunk) THEN sums
    ELSE IF throws THEN Append(sums, ERROR_SENTINEL)
    ELSE Append(sums, GenText(chunk))

\* The same iteration in src/unnamed/part_002: the sentinel carries the position.
ChunkIterationNumbered(sums, chunk, i, throws) ==
    IF Falsy(chunk) THEN sums
    ELSE IF throws THEN Append(sums, ErrorSentinelNumbered(i))
    ELSE Append(sums, GenText(chunk))

VARIABLES
    \* the transport and the list-backed queue
    netUp,          \* the Redis server is reachable
    redisOpen,      \* redisClient.isOpen
    queue,          \* the list dealListings, head first
    \* startWorker
    pc,             \* position of the consumer
    retries,        \* safePopFromQueue's retries
    processedCount,
    errorCount,
    consecutiveErrors,
    popped,         \* the submission startWorker is about to decode
    \* processSubmission
    submission,     \* the decoded Submission in the pipeline
    chunks,
    idx,            \* 1-based position of the loop of processContentChunks
    summaries,
    combinedSummary,
    finalResult,
    \* the store and the pub/sub channel
    records,        \* the bag of rows created by prismaDB.aiScreening.create
    published,      \* the bag of messages published
    \* history of the run of processSubmission in progress or just returned
    run,
    started         \* the bag of ids processSubmission was invoked for

cvars == <<netUp, redisOpen, queue, pc, retries, processedCount, errorCount,
           consecutiveErrors, popped, submission, chunks, idx, summaries, combinedSummary,
           finalResult, records, published, run, started>>

VARIABLES
    \* the marker store shared by the handlers of POST /screen-deal
    now,            \* the store's clock, in seconds
    ticks,          \* how many times the clock was advanced
    msgMarker,      \* pubsub:processed:<messageId> -> the time the key expires (0: none)
    jobMarker,      \* job:<jobId>:processed -> the time the key expires (0: none)
    jobStatus,      \* the field status of the hash job:<jobId>
    jobUpdates,     \* the bag of messages published on job-updates
    handlers        \* the requests in progress: position and locals of each handler

rvars == <<now, ticks, msgMarker, jobMarker, jobStatus, jobUpdates, handlers>>

VARIABLES
    \* the process and the socket of the Redis client
    signal,         \* position of the SIGINT/SIGTERM handler
    clientRetries,  \* the retries the client hands to reconnectStrategy
    clientDelay,    \* what reconnectStrategy last returned to the connect() in progress, in ms
    \* history of the main loop
    delayed,        \* the WORKER_DELAY_MS sleep has elapsed since a submission was last taken
    slept,          \* a setTimeout of the worker has elapsed since its last lPop
    \* the HTTP server of Bun.serve
    served          \* the last request answered by fetch and its response

xvars == <<signal, clientRetries, clientDelay, delayed, slept, served>>

vars == <<cvars, rvars, xvars>>

\* History of one run of processSubmission: the calls it made (generateText,
\* generateObject and its argument, create and the creates that succeeded), the
\* messages it published, whether a publish threw, the numbers of rows and of
\* published messages when it started, and what it returned.
NoRun == [id |-> NoId, nText |-> 0, nObj |-> 0, aggArg |-> Null, nCreate |-> 0,
          nCreated |-> 0, pubs |-> <<>>, pubThrew |-> FALSE, rows0 |-> 0, pubs0 |-> 0,
          ret |-> "none"]

ConsumerInit ==
    /\ netUp \in BOOLEAN
    /\ redisOpen = FALSE
    /\ queue \in Queues
    /\ pc = "start"
    /\ retries = 0
    /\ processedCount = 0
    /\ errorCount = 0
    /\ consecutiveErrors = 0
    /\ popped = NoPayload
    /\ submission = NoSubmission
    /\ chunks = <<>>
    /\ idx = 1
    /\ summaries = <<>>
    /\ combinedSummary = ""
    /\ finalResult = NoVerdict
    /\ records = EmptyBag
    /\ published = EmptyBag
    /\ run = NoRun
    /\ started = EmptyBag

(***************************************************************************)
(* Environment of the consumer.                                            *)
(***************************************************************************)
\* The server becomes unreachable, or reachable again.
NetFlip ==
    /\ netUp' = ~netUp
    /\ UNCHANGED <<redisOpen, queue, pc, retries, processedCount, errorCount,
                   consecutiveErrors, popped, submission, chunks, idx, summaries,
                   combinedSummary, finalResult, records, published, run, started>>
    /\ UNCHANGED rvars
    /\ UNCHANGED xvars

\* reconnectStrategy has returned an Error while the client was trying to get its
\* socket back: the client closes.
ClientGivesUp ==
    /\ redisOpen
    /\ ~netUp
    /\ pc \notin {"returned", "exited"}
    /\ redisOpen' = FALSE
    /\ UNCHANGED <<netUp, queue, pc, retries, processedCount, errorCount,
                   consecutiveErrors, popped, submission, chunks, idx, summaries,
                   combinedSummary, finalResult, records, published, run, started>>
    /\ UNCHANGED rvars
    /\ UNCHANGED xvars

(***************************************************************************)
(* isRedisHealthy and reconnectRedis                                       *)
(***************************************************************************)
\* isRedisHealthy(): the client is open and the ping is answered.
isRedisHealthy == redisOpen /\ netUp

pipelineVars == <<popped, submission, chunks, idx, summaries, combinedSummary, finalResult,
                  records, published, run, started>>
counterVars == <<processedCount, errorCount, consecutiveErrors>>

\* reconnectStrategy: (retries) => { if (retries > 10) return new Error(...);
\*                                   return Math.min(retries * 1000, 3000); }
MAX_RECONNECT_RETRIES == 10
RECONNECT_STEP_MS == 1000
RECONNECT_CAP_MS == 3000
ReconnectError == -1

reconnectStrategy(n) ==
    IF n > MAX_RECONNECT_RETRIES THEN ReconnectError
    ELSE Min(n * RECONNECT_STEP_MS, RECONNECT_CAP_MS)

\* The callers of reconnectRedis: the head of the loop of startWorker and
\* safePopFromQueue.
ReconnectSites == {"loop", "pop"}

\* The periodic checkQueueStatus of the head of the loop: if (processedCount % 10 === 0)
QueueStatusDue == processedCount % 10 = 0

\* Where a caller goes on with a client that answered, or was reconnected.
AfterHealthy(at) ==
    IF at = "pop" THEN "pop_lpop"
    ELSE IF QueueStatusDue THEN "loop_cqs_ping" ELSE "pop_health"

\* Where a caller goes when reconnectRedis() returned false: to its sleep of
\* REDIS_RETRY_DELAY.
AfterUnhealthy(at) == IF at = "pop" THEN "pop_sleep" ELSE "loop_retry_sleep"

\* safePopFromQueue counts the attempt (retries++); the loop of startWorker counts
\* nothing. retries is set to 0 where safePopFromQueue is called.
RetriesAfter(at, reconnected) ==
    IF at = "pop" THEN (IF reconnected THEN retries ELSE retries + 1)
    ELSE IF reconnected /\ ~QueueStatusDue THEN 0 ELSE retries

\* reconnectRedis(), line 121: await redisClient.disconnect() of a client that
\* was open has returned; connect() is called.
ReconnectDisconnect(at) ==
    /\ pc = at \o "_disconnect"
    /\ pc' = at \o "_connect"
    /\ UNCHANGED <<netUp, redisOpen, queue, retries>>
    /\ UNCHANGED counterVars
    /\ UNCHANGED pipelineVars
    /\ UNCHANGED rvars
    /\ UNCHANGED xvars

\* Mutant: reconnectRedis() without its try: a connect() whose first attempt
\* fails rejects the call and ends startWorker.
ReconnectConnectOnce(at) ==
    /\ pc = at \o "_connect"
    /\ IF netUp
       THEN /\ redisOpen' = TRUE
            /\ pc' = at \o "_ping"
            /\ UNCHANGED retries
       ELSE /\ redisOpen' = FALSE
            /\ pc' = "returned"
            /\ UNCHANGED retries
    /\ clientRetries' = 0
    /\ clientDelay' = 0
    /\ UNCHANGED <<netUp, queue>>
    /\ UNCHANGED counterVars
    /\ UNCHANGED pipelineVars
    /\ UNCHANGED rvars
    /\ UNCHANGED <<signal, delayed, slept, served>>

\* reconnectRedis(), line 124: await redisClient.connect(), one attempt of the
\* client. A failed attempt asks reconnectStrategy with the number of retries so
\* far; a delay is slept and the attempt repeated, an Error rejects connect() and
\* reconnectRedis() returns false with the client closed.
ReconnectConnect(at) ==
    /\ pc = at \o "_connect"
    /\ IF netUp
       THEN /\ redisOpen' = TRUE
            /\ pc' = at \o "_ping"
            /\ clientRetries' = 0
            /\ clientDelay' = 0
            /\ UNCHANGED retries
       ELSE LET retryIn == reconnectStrategy(clientRetries) IN
            /\ redisOpen' = FALSE
            /\ IF retryIn = ReconnectError
               THEN /\ pc' = AfterUnhealthy(at)
                    /\ retries' = RetriesAfter(at, FALSE)
                    /\ clientRetries' = 0
                    /\ clientDelay' = 0
               ELSE /\ pc' = pc
                    /\ clientRetries' = clientRetries + 1
                    /\ clientDelay' = retryIn
                    /\ UNCHANGED retries
    /\ UNCHANGED <<netUp, queue>>
    /\ UNCHANGED counterVars
    /\ UNCHANGED pipelineVars
    /\ UNCHANGED rvars
    /\ UNCHANGED <<signal, delayed, slept, served>>

\* reconnectRedis(), line 125: await redisClient.ping() over the client that
\* connect() opened. A ping that is rejected makes reconnectRedis() return false
\* and leaves the client as it is.
ReconnectPing(at) ==
    /\ pc = at \o "_ping"
    /\ pc' = IF redisOpen /\ netUp THEN AfterHealthy(at) ELSE AfterUnhealthy(at)
    /\ retries' = RetriesAfter(at, redisOpen /\ netUp)
    /\ UNCHANGED <<netUp, redisOpen, queue>>
    /\ UNCHANGED counterVars
    /\ UNCHANGED pipelineVars
    /\ UNCHANGED rvars
    /\ UNCHANGED xvars

(***************************************************************************)
(* checkQueueStatus: reads only, and catches what it throws                *)
(***************************************************************************)
\* The callers of checkQueueStatus: the start of startWorker and the head of its loop.
QueueStatusSites == {"start", "loop"}

\* Where the caller goes on when checkQueueStatus() has returned.
AfterQueueStatus(at) == IF at = "start" THEN "loop_health" ELSE "pop_health"

\* if (!(await isRedisHealthy())) return;
QueueStatusPing(at) ==
    /\ pc = at \o "_cqs_ping"
    /\ pc' = IF isRedisHealthy THEN at \o "_cqs_llen" ELSE AfterQueueStatus(at)
    /\ retries' = 0
    /\ UNCHANGED <<netUp, redisOpen, queue>>
    /\ UNCHANGED counterVars
    /\ UNCHANGED pipelineVars
    /\ UNCHANGED rvars
    /\ UNCHANGED xvars

\* const queueLength = await redisClient.lLen(REDIS_QUEUE_NAME); a command that is
\* rejected is caught and checkQueueStatus() returns.
QueueStatusLLen(at) ==
    /\ pc = at \o "_cqs_llen"
    /\ pc' = IF redisOpen /\ netUp /\ Len(queue) > 0 THEN at \o "_cqs_lindex"
             ELSE AfterQueueStatus(at)
    /\ UNCHANGED <<netUp, redisOpen, queue, retries>>
    /\ UNCHANGED counterVars
    /\ UNCHANGED pipelineVars
    /\ UNCHANGED rvars
    /\ UNCHANGED xvars

\* if (queueLength > 0) await redisClient.lIndex(REDIS_QUEUE_NAME, 0)
QueueStatusLIndex(at) ==
    /\ pc = at \o "_cqs_lindex"
    /\ pc' = AfterQueueStatus(at)
    /\ UNCHANGED <<netUp, redisOpen, queue, retries>>
    /\ UNCHANGED counterVars
    /\ UNCHANGED pipelineVars
    /\ UNCHANGED rvars
    /\ UNCHANGED xvars

(***************************************************************************)
(* startWorker: the connection at start                                    *)
(***************************************************************************)
\* await redisClient.connect(): one attempt of the client. A failed attempt asks
\* reconnectStrategy with the number of retries so far; a delay is slept and the
\* attempt repeated, an Error rejects connect() and the catch of startWorker
\* (lines 439-443) returns.
StartConnect ==
    /\ pc = "start"
    /\ IF netUp
       THEN /\ redisOpen' = TRUE
            /\ pc' = "start_ping"
            /\ clientRetries' = 0
            /\ clientDelay' = 0
       ELSE LET retryIn == reconnectStrategy(clientRetries) IN
            /\ redisOpen' = FALSE
            /\ IF retryIn = ReconnectError
               THEN /\ pc' = "returned"
                    /\ UNCHANGED <<clientRetries, clientDelay>>
               ELSE /\ pc' = "start"
                    /\ clientRetries' = clientRetries + 1
                    /\ clientDelay' = retryIn
    /\ UNCHANGED <<netUp, queue, retries>>
    /\ UNCHANGED counterVars
    /\ UNCHANGED pipelineVars
    /\ UNCHANGED rvars
    /\ UNCHANGED <<signal, delayed, slept, served>>

\* await redisClient.ping() of line 434: a ping that is rejected, by the server
\* being away or by the client having closed, is caught with a return.
StartPing ==
    /\ pc = "start_ping"
    /\ pc' = IF redisOpen /\ netUp THEN "start_cqs_ping" ELSE "returned"
    /\ UNCHANGED <<netUp, redisOpen, queue, retries>>
    /\ UNCHANGED counterVars
    /\ UNCHANGED pipelineVars
    /\ UNCHANGED rvars
    /\ UNCHANGED xvars

(***************************************************************************)
(* startWorker: the head of an iteration of the main loop                  *)
(***************************************************************************)
\* if (!(await isRedisHealthy())): a client that answers goes on to the periodic
\* checkQueueStatus() or to safePopFromQueue; otherwise reconnectRedis() is
\* called, which disconnects a client that is open and then connects.
LoopHealth ==
    /\ pc = "loop_health"
    /\ IF isRedisHealthy
       THEN /\ pc' = AfterHealthy("loop")
            /\ retries' = 0
            /\ UNCHANGED redisOpen
       ELSE /\ pc' = IF redisOpen THEN "loop_disconnect" ELSE "loop_connect"
            /\ redisOpen' = FALSE
            /\ UNCHANGED retries
    /\ UNCHANGED <<netUp, queue>>
    /\ UNCHANGED counterVars
    /\ UNCHANGED pipelineVars
    /\ UNCHANGED rvars
    /\ UNCHANGED xvars

\* await new Promise((resolve) => setTimeout(resolve, REDIS_RETRY_DELAY)); continue
LoopRetrySleep ==
    /\ pc = "loop_retry_sleep"
    /\ pc' = "loop_health"
    /\ UNCHANGED <<netUp, redisOpen, queue, retries>>
    /\ UNCHANGED counterVars
    /\ UNCHANGED pipelineVars
    /\ UNCHANGED rvars
    /\ slept' = TRUE
    /\ UNCHANGED <<signal, clientRetries, clientDelay, delayed, served>>

(***************************************************************************)
(* safePopFromQueue                                                        *)
(***************************************************************************)
\* Mutant: the answer of isRedisHealthy is not looked at; the pop follows.
PopHealthUnheeded ==
    /\ pc = "pop_health"
    /\ pc' = "pop_lpop"
    /\ UNCHANGED <<netUp, redisOpen, queue, retries>>
    /\ UNCHANGED counterVars
    /\ UNCHANGED pipelineVars
    /\ UNCHANGED rvars
    /\ UNCHANGED xvars

\* while (retries < MAX_RETRIES): if (!(await isRedisHealthy())) reconnectRedis()
\* is called, else the pop follows.
PopHealth ==
    /\ pc = "pop_health"
    /\ IF isRedisHealthy
       THEN /\ pc' = "pop_lpop"
            /\ UNCHANGED redisOpen
       ELSE /\ pc' = IF redisOpen THEN "pop_disconnect" ELSE "pop_connect"
            /\ redisOpen' = FALSE
    /\ UNCHANGED <<netUp, queue, retries>>
    /\ UNCHANGED counterVars
    /\ UNCHANGED pipelineVars
    /\ UNCHANGED rvars
    /\ UNCHANGED xvars

\* The sleep of REDIS_RETRY_DELAY of a failed attempt, then the loop's test.
PopSleep ==
    /\ pc = "pop_sleep"
    /\ pc' = IF retries < MAX_RETRIES THEN "pop_health" ELSE "idle_sleep"
    /\ retries' = IF retries < MAX_RETRIES THEN retries ELSE 0
    /\ UNCHANGED <<netUp, redisOpen, queue>>
    /\ UNCHANGED counterVars
    /\ UNCHANGED pipelineVars
    /\ UNCHANGED rvars
    /\ slept' = TRUE
    /\ UNCHANGED <<signal, clientRetries, clientDelay, delayed, served>>

\* const result = await redisClient.lPop(REDIS_QUEUE_NAME); return result;
\* a pop that throws counts a retry and sleeps unless it was the last one. Back in
\* startWorker, if (submission) resets consecutiveErrors and goes on to decode it;
\* null and the empty string take the else branch, the sleep of 1000 ms.
\* retries is a local of safePopFromQueue: it is gone when the function returns.
\* Mutant: a retried attempt of safePopFromQueue pops with rPop, the first with lPop.
PopMixedEnds ==
    /\ pc = "pop_lpop"
    /\ IF redisOpen /\ netUp
       THEN /\ IF queue = <<>>
               THEN /\ popped' = NoPayload
                    /\ pc' = "idle_sleep"
                    /\ UNCHANGED <<queue, consecutiveErrors, delayed>>
               ELSE IF Truthy(IF retries > 0 THEN queue[Len(queue)] ELSE Head(queue))
               THEN /\ popped' = IF retries > 0 THEN queue[Len(queue)] ELSE Head(queue)
                    /\ queue' = IF retries > 0 THEN SubSeq(queue, 1, Len(queue) - 1)
                                 ELSE Tail(queue)
                    /\ delayed' = FALSE
                    /\ consecutiveErrors' = 0
                    /\ pc' = "parse"
               ELSE /\ popped' = NoPayload
                    /\ queue' = IF retries > 0 THEN SubSeq(queue, 1, Len(queue) - 1)
                                 ELSE Tail(queue)
                    /\ pc' = "idle_sleep"
                    /\ UNCHANGED <<consecutiveErrors, delayed>>
            /\ retries' = 0
       ELSE /\ IF retries + 1 < MAX_RETRIES
               THEN retries' = retries + 1 /\ pc' = "pop_sleep"
               ELSE retries' = 0 /\ pc' = "idle_sleep"
            /\ popped' = NoPayload
            /\ UNCHANGED <<queue, consecutiveErrors, delayed>>
    /\ UNCHANGED <<netUp, redisOpen, processedCount, errorCount>>
    /\ UNCHANGED <<submission, chunks, idx, summaries, combinedSummary, finalResult,
                   records, published, run, started>>
    /\ UNCHANGED rvars
    /\ slept' = FALSE
    /\ UNCHANGED <<signal, clientRetries, clientDelay, served>>

\* Mutant: lPop outside the try of safePopFromQueue: a pop that throws leaves the
\* function by the throw and lands in the catch of the worker loop.
PopLPopUncaught ==
    /\ pc = "pop_lpop"
    /\ IF redisOpen /\ netUp
       THEN /\ IF queue = <<>>
               THEN /\ popped' = NoPayload
                    /\ pc' = "idle_sleep"
                    /\ UNCHANGED <<queue, consecutiveErrors, delayed>>
               ELSE IF Truthy(Head(queue))
               THEN /\ popped' = Head(queue)
                    /\ queue' = Tail(queue)
                    /\ delayed' = FALSE
                    /\ consecutiveErrors' = 0
                    /\ pc' = "parse"
               ELSE /\ popped' = NoPayload
                    /\ queue' = Tail(queue)
                    /\ pc' = "idle_sleep"
                    /\ UNCHANGED <<consecutiveErrors, delayed>>
       ELSE /\ pc' = "loop_retry_sleep"
            /\ popped' = NoPayload
            /\ UNCHANGED <<queue, consecutiveErrors, delayed>>
    /\ retries' = 0
    /\ UNCHANGED <<netUp, redisOpen, processedCount, errorCount>>
    /\ UNCHANGED <<submission, chunks, idx, summaries, combinedSummary, finalResult,
                   records, published, run, started>>
    /\ UNCHANGED rvars
    /\ slept' = FALSE
    /\ UNCHANGED <<signal, clientRetries, clientDelay, served>>

\* The loop without the sleep of its else branch: an empty pop goes straight to
\* the next iteration.
PopLPopNoIdle ==
    /\ pc = "pop_lpop"
    /\ IF redisOpen /\ netUp
       THEN /\ IF queue = <<>>
               THEN /\ popped' = NoPayload
                    /\ pc' = "loop_health"
                    /\ UNCHANGED <<queue, consecutiveErrors, delayed>>
               ELSE IF Truthy(Head(queue))
               THEN /\ popped' = Head(queue)
                    /\ queue' = Tail(queue)
                    /\ delayed' = FALSE
                    /\ consecutiveErrors' = 0
                    /\ pc' = "parse"
               ELSE /\ popped' = NoPayload
                    /\ queue' = Tail(queue)
                    /\ pc' = "loop_health"
                    /\ UNCHANGED <<consecutiveErrors, delayed>>
            /\ retries' = 0
       ELSE /\ IF retries + 1 < MAX_RETRIES
               THEN retries' = retries + 1 /\ pc' = "pop_sleep"
               ELSE retries' = 0 /\ pc' = "idle_sleep"
            /\ popped' = NoPayload
            /\ UNCHANGED <<queue, consecutiveErrors, delayed>>
    /\ UNCHANGED <<netUp, redisOpen, processedCount, errorCount>>
    /\ UNCHANGED <<submission, chunks, idx, summaries, combinedSummary, finalResult,
                   records, published, run, started>>
    /\ UNCHANGED rvars
    /\ slept' = FALSE
    /\ UNCHANGED <<signal, clientRetries, clientDelay, served>>

PopLPop ==
    /\ pc = "pop_lpop"
    /\ IF redisOpen /\ netUp
       THEN /\ IF queue = <<>>
               THEN /\ popped' = NoPayload
                    /\ pc' = "idle_sleep"
                    /\ UNCHANGED <<queue, consecutiveErrors, delayed>>
               ELSE IF Truthy(Head(queue))
               THEN /\ popped' = Head(queue)
                    /\ queue' = Tail(queue)
                    /\ delayed' = FALSE
                    /\ consecutiveErrors' = 0
                    /\ pc' = "parse"
               ELSE /\ popped' = NoPayload
                    /\ queue' = Tail(queue)
                    /\ pc' = "idle_sleep"
                    /\ UNCHANGED <<consecutiveErrors, delayed>>
            /\ retries' = 0
       ELSE /\ IF retries + 1 < MAX_RETRIES
               THEN retries' = retries + 1 /\ pc' = "pop_sleep"
               ELSE retries' = 0 /\ pc' = "idle_sleep"
            /\ popped' = NoPayload
            /\ UNCHANGED <<queue, consecutiveErrors, delayed>>
    /\ UNCHANGED <<netUp, redisOpen, processedCount, errorCount>>
    /\ UNCHANGED <<submission, chunks, idx, summaries, combinedSummary, finalResult,
                   records, published, run, started>>
    /\ UNCHANGED rvars
    /\ slept' = FALSE
    /\ UNCHANGED <<signal, clientRetries, clientDelay, served>>

\* No submission: await new Promise((resolve) => setTimeout(resolve, 1000)).
IdleSleep ==
    /\ pc = "idle_sleep"
    /\ pc' = "loop_health"
    /\ UNCHANGED <<netUp, redisOpen, queue, retries>>
    /\ UNCHANGED counterVars
    /\ UNCHANGED pipelineVars
    /\ UNCHANGED rvars
    /\ slept' = TRUE
    /\ UNCHANGED <<signal, clientRetries, clientDelay, delayed, served>>

(***************************************************************************)
(* startWorker: decoding the payload                                       *)
(***************************************************************************)
transportVars == <<netUp, redisOpen, queue, retries>>

\* processSubmission called without await: the loop goes on while the
\* submission is in the pipeline.
ParseDetached ==
    /\ pc = "parse"
    /\ LET r == JsonParse(popped) IN
       IF r.ok
       THEN /\ submission' = r.value
            /\ run' = [NoRun EXCEPT !.id = r.value.id, !.ret = "running",
                                     !.rows0 = BagCardinality(records),
                                     !.pubs0 = BagCardinality(published)]
            /\ started' = started (+) SetToBag({r.value.id})
            /\ pc' = "loop_health"
            /\ UNCHANGED errorCount
       ELSE /\ errorCount' = errorCount + 1
            /\ pc' = "loop_health"
            /\ UNCHANGED <<submission, run, started>>
    /\ popped' = NoPayload
    /\ UNCHANGED transportVars
    /\ UNCHANGED <<processedCount, consecutiveErrors, chunks, idx, summaries,
                   combinedSummary, finalResult, records, published>>
    /\ UNCHANGED rvars
    /\ UNCHANGED xvars

\* submissionData = JSON.parse(submission): a payload that does not decode is
\* counted and the loop continues; a decoded one enters processSubmission.
Parse ==
    /\ pc = "parse"
    /\ LET r == JsonParse(popped) IN
       IF r.ok
       THEN /\ submission' = r.value
            /\ run' = [NoRun EXCEPT !.id = r.value.id, !.ret = "running",
                                     !.rows0 = BagCardinality(records),
                                     !.pubs0 = BagCardinality(published)]
            /\ started' = started (+) SetToBag({r.value.id})
            /\ pc' = "ps_split"
            /\ UNCHANGED errorCount
       ELSE /\ errorCount' = errorCount + 1
            /\ pc' = "loop_health"
            /\ UNCHANGED <<submission, run, started>>
    /\ popped' = NoPayload
    /\ UNCHANGED transportVars
    /\ UNCHANGED <<processedCount, consecutiveErrors, chunks, idx, summaries,
                   combinedSummary, finalResult, records, published>>
    /\ UNCHANGED rvars
    /\ UNCHANGED xvars

(***************************************************************************)
(* processSubmission                                                       *)
(***************************************************************************)
\* processSubmission without its try/catch: what the chunker throws rejects the
\* call of processSubmission and ends startWorker.
SplitUncaught ==
    /\ pc = "ps_split"
    /\ \E throws \in BOOLEAN :
       LET cs == IF throws THEN <<>>
                 ELSE splitContentIntoChunks(submission.screenerContent) IN
       /\ chunks' = cs
       /\ idx' = 1
       /\ summaries' = <<>>
       /\ IF throws
          THEN /\ pc' = "returned"
               /\ UNCHANGED run
          ELSE IF Len(cs) = 0
          THEN /\ run' = [run EXCEPT !.ret = "false"]
               /\ pc' = "ps_return"
          ELSE /\ pc' = "pcc_loop"
               /\ UNCHANGED run
    /\ UNCHANGED transportVars
    /\ UNCHANGED counterVars
    /\ UNCHANGED <<popped, submission, combinedSummary, finalResult, records, published,
                   started>>
    /\ UNCHANGED rvars
    /\ UNCHANGED xvars

\* const chunks = await splitContentIntoChunks(submission.screenerContent);
\* if (chunks.length === 0) return false;
\* An exception thrown here is the one the catch of processSubmission (lines
\* 381-384) can see: it returns false.
Split ==
    /\ pc = "ps_split"
    /\ \E throws \in BOOLEAN :
       LET cs == IF throws THEN <<>>
                 ELSE splitContentIntoChunks(submission.screenerContent) IN
       /\ chunks' = cs
       /\ idx' = 1
       /\ summaries' = <<>>
       /\ IF throws \/ Len(cs) = 0
          THEN /\ run' = [run EXCEPT !.ret = "false"]
               /\ pc' = "ps_return"
          ELSE /\ pc' = "pcc_loop"
               /\ UNCHANGED run
    /\ UNCHANGED transportVars
    /\ UNCHANGED counterVars
    /\ UNCHANGED <<popped, submission, combinedSummary, finalResult, records, published,
                   started>>
    /\ UNCHANGED rvars
    /\ UNCHANGED xvars

\* processContentChunks: one iteration of for (let i = 0; i < chunks.length; i++);
\* generateText answers or throws.
ChunkStep ==
    /\ pc = "pcc_loop"
    /\ idx <= Len(chunks)
    /\ \E throws \in BOOLEAN :
         summaries' = ChunkIteration(summaries, chunks[idx], idx, throws)
    /\ idx' = idx + 1
    /\ run' = IF Falsy(chunks[idx]) THEN run ELSE [run EXCEPT !.nText = @ + 1]
    /\ UNCHANGED transportVars
    /\ UNCHANGED counterVars
    /\ UNCHANGED <<pc, popped, submission, chunks, combinedSummary, finalResult, records,
                   published, started>>
    /\ UNCHANGED rvars
    /\ UNCHANGED xvars

\* return summaries; const combinedSummary = summaries.join(...)
ChunksDone ==
    /\ pc = "pcc_loop"
    /\ idx > Len(chunks)
    /\ combinedSummary' = Join(summaries)
    /\ pc' = "ps_final"
    /\ UNCHANGED transportVars
    /\ UNCHANGED counterVars
    /\ UNCHANGED <<popped, submission, chunks, idx, summaries, finalResult, records,
                   published, run, started>>
    /\ UNCHANGED rvars
    /\ UNCHANGED xvars

\* generateFinalSummary: result.object, or null when generateObject throws (the
\* capability fails or its answer does not satisfy the schema).
generateFinalSummary(outcome) == IF outcome.throws THEN NoVerdict ELSE outcome.object
\* What generateObject can do: answer an object of the schema, or throw.
GenObjectOutcomes ==
    {[throws |-> FALSE, object |-> v] : v \in Verdicts}
        \cup {[throws |-> TRUE, object |-> NoVerdict]}

\* const finalResult = await generateFinalSummary(combinedSummary);
\* if (!finalResult) return false;
FinalSummary ==
    /\ pc = "ps_final"
    /\ \E outcome \in GenObjectOutcomes :
         /\ finalResult' = generateFinalSummary(outcome)
         /\ IF generateFinalSummary(outcome) = NoVerdict
            THEN /\ run' = [run EXCEPT !.nObj = @ + 1, !.aggArg = combinedSummary,
                                       !.ret = "false"]
                 /\ pc' = "ps_return"
            ELSE /\ run' = [run EXCEPT !.nObj = @ + 1, !.aggArg = combinedSummary]
                 /\ pc' = "ps_save"
    /\ UNCHANGED transportVars
    /\ UNCHANGED counterVars
    /\ UNCHANGED <<popped, submission, chunks, idx, summaries, combinedSummary, records,
                   published, started>>
    /\ UNCHANGED rvars
    /\ UNCHANGED xvars

\* The row prismaDB.aiScreening.create is given by saveAIScreeningResult.
ScreeningRow(submissionId, result, content) ==
    [dealId |-> submissionId, title |-> result.title, explanation |-> result.explanation,
     score |-> result.score, sentiment |-> result.sentiment, content |-> content]

\* Mutant: a create that throws is attempted a second time.
SaveRetrying ==
    /\ pc = "ps_save"
    /\ \E ok \in BOOLEAN, ok2 \in BOOLEAN :
         IF ok \/ ok2
         THEN /\ records' = records (+) SetToBag({ScreeningRow(submission.id, finalResult,
                                                                 combinedSummary)})
              /\ run' = [run EXCEPT !.nCreate = @ + (IF ok THEN 1 ELSE 2),
                                    !.nCreated = @ + 1]
              /\ pc' = "ps_publish"
         ELSE /\ run' = [run EXCEPT !.nCreate = @ + 2, !.ret = "false"]
              /\ pc' = "ps_return"
              /\ UNCHANGED records
    /\ UNCHANGED <<netUp, redisOpen, queue, retries>>
    /\ UNCHANGED <<processedCount, errorCount, consecutiveErrors>>
    /\ UNCHANGED <<popped, submission, chunks, idx, summaries, combinedSummary,
                   finalResult, published, started>>
    /\ UNCHANGED rvars
    /\ UNCHANGED xvars

\* Mutant: the row is written with an upsert keyed by the submission id, which
\* replaces the row an earlier run wrote for that id.
SaveUpsert ==
    /\ pc = "ps_save"
    /\ \E ok \in BOOLEAN :
         IF ok
         THEN /\ records' = [r \in {x \in BagToSet(records) : x.dealId # submission.id}
                                |-> records[r]]
                           (+) SetToBag({ScreeningRow(submission.id, finalResult,
                                                                 combinedSummary)})
              /\ run' = [run EXCEPT !.nCreate = @ + 1, !.nCreated = @ + 1]
              /\ pc' = "ps_publish"
         ELSE /\ run' = [run EXCEPT !.nCreate = @ + 1, !.ret = "false"]
              /\ pc' = "ps_return"
              /\ UNCHANGED records
    /\ UNCHANGED transportVars
    /\ UNCHANGED counterVars
    /\ UNCHANGED <<popped, submission, chunks, idx, summaries, combinedSummary,
                   finalResult, published, started>>
    /\ UNCHANGED rvars
    /\ UNCHANGED xvars

\* Mutant: saveSuccess is not looked at; the notification follows a failed save.
SaveUnheeded ==
    /\ pc = "ps_save"
    /\ \E ok \in BOOLEAN :
         IF ok
         THEN /\ records' = records (+) SetToBag({ScreeningRow(submission.id, finalResult,
                                                                 combinedSummary)})
              /\ run' = [run EXCEPT !.nCreate = @ + 1, !.nCreated = @ + 1]
              /\ pc' = "ps_publish"
         ELSE /\ run' = [run EXCEPT !.nCreate = @ + 1]
              /\ pc' = "ps_publish"
              /\ UNCHANGED records
    /\ UNCHANGED transportVars
    /\ UNCHANGED counterVars
    /\ UNCHANGED <<popped, submission, chunks, idx, summaries, combinedSummary,
                   finalResult, published, started>>
    /\ UNCHANGED rvars
    /\ UNCHANGED xvars

\* const saveSuccess = await saveAIScreeningResult(...): one create, true when it
\* succeeded and false when it threw; if (!saveSuccess) return false.
Save ==
    /\ pc = "ps_save"
    /\ \E ok \in BOOLEAN :
         IF ok
         THEN /\ records' = records (+) SetToBag({ScreeningRow(submission.id, finalResult,
                                                                 combinedSummary)})
              /\ run' = [run EXCEPT !.nCreate = @ + 1, !.nCreated = @ + 1]
              /\ pc' = "ps_publish"
         ELSE /\ run' = [run EXCEPT !.nCreate = @ + 1, !.ret = "false"]
              /\ pc' = "ps_return"
              /\ UNCHANGED records
    /\ UNCHANGED transportVars
    /\ UNCHANGED counterVars
    /\ UNCHANGED <<popped, submission, chunks, idx, summaries, combinedSummary,
                   finalResult, published, started>>
    /\ UNCHANGED rvars
    /\ UNCHANGED xvars

\* Mutant: the message is published on a channel of its user.
CompletionNotificationPerUser(sub) ==
    [channel |-> REDIS_PUBLISH_CHANNEL \o ":" \o sub.userId, userId |-> sub.userId,
     productId |-> sub.id, status |-> "done", productName |-> sub.name]

\* The message publishCompletionNotification publishes.
CompletionNotification(sub) ==
    [channel |-> REDIS_PUBLISH_CHANNEL, userId |-> sub.userId, productId |-> sub.id,
     status |-> "done", productName |-> sub.name]

\* Mutant: the publish is not wrapped in try/catch, so a publish that throws reaches
\* the catch of processSubmission, which returns false.
PublishUncaught ==
    /\ pc = "ps_publish"
    /\ IF redisOpen /\ netUp
       THEN /\ published' = published (+) SetToBag({CompletionNotification(submission)})
            /\ run' = [run EXCEPT !.pubs = Append(@, CompletionNotification(submission)),
                                  !.ret = "true"]
       ELSE /\ run' = [run EXCEPT !.pubThrew = TRUE, !.ret = "false"]
            /\ UNCHANGED published
    /\ pc' = "ps_return"
    /\ UNCHANGED <<netUp, redisOpen, queue, retries>>
    /\ UNCHANGED <<processedCount, errorCount, consecutiveErrors>>
    /\ UNCHANGED <<popped, submission, chunks, idx, summaries, combinedSummary,
                   finalResult, records, started>>
    /\ UNCHANGED rvars
    /\ UNCHANGED xvars

\* await publishCompletionNotification(submission); return true;
\* a publish that throws is caught inside publishCompletionNotification.
Publish ==
    /\ pc = "ps_publish"
    /\ IF redisOpen /\ netUp
       THEN /\ published' = published (+) SetToBag({CompletionNotification(submission)})
            /\ run' = [run EXCEPT !.pubs = Append(@, CompletionNotification(submission)),
                                  !.ret = "true"]
       ELSE /\ run' = [run EXCEPT !.pubThrew = TRUE, !.ret = "true"]
            /\ UNCHANGED published
    /\ pc' = "ps_return"
    /\ UNCHANGED transportVars
    /\ UNCHANGED counterVars
    /\ UNCHANGED <<popped, submission, chunks, idx, summaries, combinedSummary,
                   finalResult, records, started>>
    /\ UNCHANGED rvars
    /\ UNCHANGED xvars

\* Mutant: the payload of a run that returned false is pushed back onto the list.
ReturnRequeue ==
    /\ pc = "ps_return"
    /\ IF run.ret = "true"
       THEN processedCount' = processedCount + 1 /\ UNCHANGED errorCount
       ELSE errorCount' = errorCount + 1 /\ UNCHANGED processedCount
    /\ pc' = "worker_sleep"
    /\ popped' = NoPayload
    /\ submission' = NoSubmission
    /\ chunks' = <<>>
    /\ idx' = 1
    /\ summaries' = <<>>
    /\ combinedSummary' = ""
    /\ finalResult' = NoVerdict
    /\ run' = NoRun
    /\ queue' = IF run.ret = "true" THEN queue
                 ELSE Append(queue, JsonPayload(submission.id, submission.screenerContent))
    /\ UNCHANGED <<netUp, redisOpen, retries>>
    /\ UNCHANGED consecutiveErrors
    /\ UNCHANGED <<records, published, started>>
    /\ UNCHANGED rvars
    /\ UNCHANGED xvars

\* const success = await processSubmission(submissionData);
\* if (success) processedCount++ else errorCount++
\* The locals of the run that returned are gone.
Return ==
    /\ pc = "ps_return"
    /\ IF run.ret = "true"
       THEN processedCount' = processedCount + 1 /\ UNCHANGED errorCount
       ELSE errorCount' = errorCount + 1 /\ UNCHANGED processedCount
    /\ pc' = "worker_sleep"
    /\ popped' = NoPayload
    /\ submission' = NoSubmission
    /\ chunks' = <<>>
    /\ idx' = 1
    /\ summaries' = <<>>
    /\ combinedSummary' = ""
    /\ finalResult' = NoVerdict
    /\ run' = NoRun
    /\ UNCHANGED transportVars
    /\ UNCHANGED consecutiveErrors
    /\ UNCHANGED <<records, published, started>>
    /\ UNCHANGED rvars
    /\ UNCHANGED xvars

\* await new Promise((resolve) => setTimeout(resolve, WORKER_DELAY_MS));
WorkerSleep ==
    /\ pc = "worker_sleep"
    /\ pc' = "loop_health"
    /\ UNCHANGED transportVars
    /\ UNCHANGED counterVars
    /\ UNCHANGED pipelineVars
    /\ UNCHANGED rvars
    /\ delayed' = TRUE
    /\ slept' = TRUE
    /\ UNCHANGED <<signal, clientRetries, clientDelay, served>>


(***************************************************************************)
(* processContentChunks on its own, called with an arbitrary chunk array:  *)
(* the loop of src/index.ts (pc "pcc_loop") and the loop of                *)
(* src/unnamed/part_002 (pc "pcc002_loop").                                *)
(***************************************************************************)
ChunkTexts == {"", "a", "b"}
ChunkArrays == SeqsUpTo(ChunkTexts, MaxChunks)

\* part_002: one iteration of for (let i = 0; i < chunks.length; i++).
ChunkStep002 ==
    /\ pc = "pcc002_loop"
    /\ idx <= Len(chunks)
    /\ \E throws \in BOOLEAN :
         summaries' = ChunkIterationNumbered(summaries, chunks[idx], idx, throws)
    /\ idx' = idx + 1
    /\ run' = IF Falsy(chunks[idx]) THEN run ELSE [run EXCEPT !.nText = @ + 1]
    /\ UNCHANGED transportVars
    /\ UNCHANGED counterVars
    /\ UNCHANGED <<pc, popped, submission, chunks, combinedSummary, finalResult, records,
                   published, started>>
    /\ UNCHANGED rvars
    /\ UNCHANGED xvars

\* return summaries;
ChunksReturn ==
    /\ pc \in {"pcc_loop", "pcc002_loop"}
    /\ idx > Len(chunks)
    /\ pc' = IF pc = "pcc_loop" THEN "pcc_returned" ELSE "pcc002_returned"
    /\ UNCHANGED transportVars
    /\ UNCHANGED counterVars
    /\ UNCHANGED pipelineVars
    /\ UNCHANGED rvars
    /\ UNCHANGED xvars

ChunksInit ==
    /\ netUp = TRUE
    /\ redisOpen = TRUE
    /\ queue = <<>>
    /\ pc \in {"pcc_loop", "pcc002_loop"}
    /\ retries = 0
    /\ processedCount = 0
    /\ errorCount = 0
    /\ consecutiveErrors = 0
    /\ popped = NoPayload
    /\ submission = NoSubmission
    /\ chunks \in ChunkArrays
    /\ idx = 1
    /\ summaries = <<>>
    /\ combinedSummary = ""
    /\ finalResult = NoVerdict
    /\ records = EmptyBag
    /\ published = EmptyBag
    /\ run = NoRun
    /\ started = EmptyBag

ChunksNext ==
    \/ ChunkStep
    \/ ChunkStep002
    \/ ChunksReturn

ConsumerNext ==
    \/ NetFlip
    \/ ClientGivesUp
    \/ StartConnect
    \/ StartPing
    \/ LoopHealth
    \/ LoopRetrySleep
    \/ PopHealth
    \/ \E at \in ReconnectSites : ReconnectDisconnect(at)
    \/ \E at \in ReconnectSites : ReconnectConnect(at)
    \/ \E at \in ReconnectSites : ReconnectPing(at)
    \/ \E at \in QueueStatusSites : QueueStatusPing(at)
    \/ \E at \in QueueStatusSites : QueueStatusLLen(at)
    \/ \E at \in QueueStatusSites : QueueStatusLIndex(at)
    \/ PopSleep
    \/ PopLPop
    \/ IdleSleep
    \/ Parse
    \/ Split
    \/ ChunkStep
    \/ ChunksDone
    \/ FinalSummary
    \/ Save
    \/ Publish
    \/ Return
    \/ WorkerSleep


(***************************************************************************)
(* POST /screen-deal (src/routes/screen-deal.ts, the handler with the      *)
(* duplicate check) and evaluateDealAndSaveResult                          *)
(* (src/lib/actions/evaluate-deal.ts).                                     *)
(***************************************************************************)
MSG_MARKER_TTL == 3600
JOB_MARKER_TTL == 86400
MaxTicks == 1
\* By how much the clock is advanced: past the message marker's life, past the
\* job marker's life.
TimeSteps == {MSG_MARKER_TTL, JOB_MARKER_TTL}

Handlers == {"h1", "h2"}
JobIds == {"j1", "j2"}
MsgIds == {"m1"}
NoMsg == "none"
\* redis is null (REDIS_URL unset), or redis.status.
RedisStates == {"unconfigured", "ready", "connecting"}

\* A request: no message in the body, message data that is not JSON, a payload
\* that fails screenDealPayloadSchema, or a valid payload, with or without a
\* messageId.
ValidRequests ==
    {[kind |-> "valid", jobId |-> j, messageId |-> m] :
        j \in JobIds, m \in MsgIds \cup {NoMsg}}
InvalidRequests ==
    {[kind |-> k, jobId |-> NoId, messageId |-> NoMsg] :
        k \in {"no_message", "bad_json", "bad_schema"}}
Requests == ValidRequests \cup InvalidRequests

\* The objects of the schema generateObject is taken to answer; score in tenths.
RouteVerdicts ==
    {[title |-> "t", score |-> 75, sentiment |-> "POSITIVE", explanation |-> "e"],
     [title |-> "t", score |-> 0, sentiment |-> "NEGATIVE", explanation |-> "e"]}
RouteGenObjectOutcomes ==
    {[throws |-> FALSE, object |-> v] : v \in RouteVerdicts}
        \cup {[throws |-> TRUE, object |-> NoVerdict]}

\* What evaluateDealAndSaveResult returned: success and message.
NoEval == [success |-> FALSE, message |-> Null]

\* A handler: its position, the request's jobId and messageId, its response,
\* the locals of evaluateDealAndSaveResult, and what is remembered of the
\* request: checked is the way the duplicate check ended ("none" while it has
\* not been made, "rejected" when a command of it failed, "duplicate",
\* "passed"), markerAtCheck whether a marker of the request was alive when the
\* check was made, acted whether the request has set a marker, written a job
\* status, published or called evaluateDealAndSaveResult; textThrew and
\* aggregated whether generateText threw and generateObject was called in the
\* evaluation the handler awaits or has just been answered by; content is the
\* content of the screener between its lookup and the chunker, stray whether an
\* exists command of the request is still unanswered after Promise.all rejected,
\* hasMessage the answer to the exists on the message key while the one on the
\* job key is awaited.
\* The messageId is kept until the markers are set.
NoHandler ==
    [pc |-> "idle", jobId |-> Null, messageId |-> NoMsg, response |-> 0,
     checked |-> "none", markerAtCheck |-> FALSE, acted |-> FALSE,
     textThrew |-> FALSE, aggregated |-> FALSE, ev |-> NoEval,
     chunks |-> <<>>, idx |-> 1, sums |-> <<>>, combined |-> "", verdict |-> NoVerdict,
     content |-> "", stray |-> FALSE, hasMessage |-> 0]

NoResponse == [pathname |-> Null, status |-> 0, body |-> Null]

\* No signal has arrived, the client has not retried, no payload was popped, no
\* request was answered.
ExtrasQuiet ==
    /\ signal = "none"
    /\ clientRetries = 0
    /\ clientDelay = 0
    /\ delayed = TRUE
    /\ slept = TRUE
    /\ served = NoResponse

RouteQuiet ==
    /\ now = 0
    /\ ticks = 0
    /\ msgMarker = [m \in MsgIds |-> 0]
    /\ jobMarker = [j \in JobIds |-> 0]
    /\ jobStatus = [j \in JobIds |-> "none"]
    /\ jobUpdates = EmptyBag
    /\ handlers = [h \in Handlers |-> NoHandler]

consumerOnlyVars ==
    <<netUp, redisOpen, queue, pc, retries, processedCount, errorCount, consecutiveErrors,
      popped, submission, chunks, idx, summaries, combinedSummary, finalResult,
      published, run, started>>

\* redis.exists(key): 1 while the key has not expired.
Exists(expireAt) == IF expireAt > now THEN 1 ELSE 0

\* if ((dedupKey && hasMessage === 1) || hasJob === 1)
DedupDecision(dedupKey, hasMessage, hasJob) == (dedupKey /\ hasMessage = 1) \/ hasJob = 1

\* evaluateDealAndSaveResult returns: its locals are gone.
Returns(hr, ev) ==
    [hr EXCEPT !.pc = "after_eval", !.ev = ev, !.chunks = <<>>, !.idx = 1, !.sums = <<>>,
               !.combined = "", !.verdict = NoVerdict]

\* The handler has looked at what evaluateDealAndSaveResult returned.
Forget(hr) == [hr EXCEPT !.textThrew = FALSE, !.aggregated = FALSE]

\* The handler sends its response.
Respond(hr, code) ==
    [Forget(hr) EXCEPT !.pc = "responded", !.response = code, !.messageId = NoMsg,
                       !.ev = NoEval]

\* The clock of the store advances by the life of a marker; a request is
\* answered in less time than that.
Tick ==
    /\ ticks < MaxTicks
    /\ \A h \in Handlers : handlers[h].pc \in {"idle", "responded"}
    /\ \E d \in TimeSteps : now' = now + d
    /\ ticks' = ticks + 1
    /\ UNCHANGED <<msgMarker, jobMarker, jobStatus, jobUpdates, handlers, records>>
    /\ UNCHANGED consumerOnlyVars
    /\ UNCHANGED xvars

\* Mutant: the job marker of a payload that names a job is written on arrival,
\* ahead of the test of redis.status.
HReceiveMarkFirst(h) ==
    /\ handlers[h].pc = "idle"
    /\ \E req \in Requests, st \in RedisStates :
         /\ handlers' = [handlers EXCEPT ![h] =
               IF st # "ready" THEN Respond(@, 503)
               ELSE IF req.kind = "no_message" THEN Respond(@, 400)
               ELSE IF req.kind = "bad_json" THEN [@ EXCEPT !.pc = "catch_set"]
               ELSE IF req.kind = "bad_schema" THEN Respond(@, 400)
               ELSE [@ EXCEPT !.pc = "exists", !.jobId = req.jobId,
                              !.messageId = req.messageId]]
         /\ jobMarker' = IF req.kind = "valid"
                         THEN [jobMarker EXCEPT ![req.jobId] = now + JOB_MARKER_TTL]
                         ELSE jobMarker
    /\ UNCHANGED <<now, ticks, msgMarker, jobStatus, jobUpdates, records>>
    /\ UNCHANGED consumerOnlyVars
    /\ UNCHANGED xvars

\* Lines 98-138: the checks before the duplicate check.
HReceive(h) ==
    /\ handlers[h].pc = "idle"
    /\ \E req \in Requests, st \in RedisStates :
         handlers' = [handlers EXCEPT ![h] =
            IF st # "ready" THEN Respond(@, 503)
            ELSE IF req.kind = "no_message" THEN Respond(@, 400)
            ELSE IF req.kind = "bad_json" THEN [@ EXCEPT !.pc = "catch_set"]
            ELSE IF req.kind = "bad_schema" THEN Respond(@, 400)
            ELSE [@ EXCEPT !.pc = "exists", !.jobId = req.jobId,
                           !.messageId = req.messageId]]
    /\ UNCHANGED <<now, ticks, msgMarker, jobMarker, jobStatus, jobUpdates, records>>
    /\ UNCHANGED consumerOnlyVars
    /\ UNCHANGED xvars

\* Lines 145-148: both exists commands are issued together and answered one
\* after the other. This is the answer to redis.exists(dedupKey) of a request with
\* a messageId: Promise.all goes on awaiting the exists on the job key, or rejects
\* with this command, caught at line 215, with the other answered at once or
\* still unanswered.
HExistsMessage(h) ==
    /\ handlers[h].pc = "exists"
    /\ handlers[h].messageId # NoMsg
    /\ LET hr == handlers[h]
           hasMessage == Exists(msgMarker[hr.messageId])
       IN \E rejects \in BOOLEAN, unanswered \in BOOLEAN :
            handlers' = [handlers EXCEPT ![h] =
                IF rejects
                THEN [hr EXCEPT !.pc = "catch_set", !.checked = "rejected",
                                !.markerAtCheck = (hasMessage = 1
                                                   \/ Exists(jobMarker[hr.jobId]) = 1),
                                !.messageId = NoMsg, !.stray = unanswered]
                ELSE [hr EXCEPT !.pc = "exists_job", !.hasMessage = hasMessage]]
    /\ UNCHANGED <<now, ticks, msgMarker, jobMarker, jobStatus, jobUpdates, records>>
    /\ UNCHANGED consumerOnlyVars
    /\ UNCHANGED xvars

\* Lines 145-158: the answer to redis.exists(jobKey) settles Promise.all; a
\* duplicate is answered 204. A command that rejects is caught at line 215.
HExists(h) ==
    /\ \/ handlers[h].pc = "exists" /\ handlers[h].messageId = NoMsg
       \/ handlers[h].pc = "exists_job"
    /\ LET hr == handlers[h]
           dedupKey == hr.messageId # NoMsg
           hasMessage == IF dedupKey THEN hr.hasMessage ELSE 0
           hasJob == Exists(jobMarker[hr.jobId])
           seen == [hr EXCEPT !.markerAtCheck = (hasMessage = 1 \/ hasJob = 1),
                              !.hasMessage = 0]
       IN \E rejects \in BOOLEAN :
            handlers' = [handlers EXCEPT ![h] =
                IF rejects
                THEN [seen EXCEPT !.pc = "catch_set", !.checked = "rejected",
                                  !.messageId = NoMsg]
                ELSE IF DedupDecision(dedupKey, hasMessage, hasJob)
                THEN Respond([seen EXCEPT !.checked = "duplicate"], 204)
                ELSE [seen EXCEPT !.checked = "passed", !.pc = "multi"]]
    /\ UNCHANGED <<now, ticks, msgMarker, jobMarker, jobStatus, jobUpdates, records>>
    /\ UNCHANGED consumerOnlyVars
    /\ UNCHANGED xvars

\* The exists command that was unanswered when Promise.all rejected is answered;
\* nothing awaits its answer.
HExistsLate(h) ==
    /\ handlers[h].stray
    /\ handlers' = [handlers EXCEPT ![h].stray = FALSE]
    /\ UNCHANGED <<now, ticks, msgMarker, jobMarker, jobStatus, jobUpdates, records>>
    /\ UNCHANGED consumerOnlyVars
    /\ UNCHANGED xvars

\* Lines 161-164: the markers are set in one MULTI/EXEC; an exec that rejects
\* is taken to have set nothing.
HMulti(h) ==
    /\ handlers[h].pc = "multi"
    /\ LET hr == handlers[h]
           dedupKey == hr.messageId # NoMsg
       IN \E rejects \in BOOLEAN :
            IF rejects
            THEN /\ handlers' = [handlers EXCEPT ![h].pc = "catch_set",
                                                 ![h].messageId = NoMsg]
                 /\ UNCHANGED <<msgMarker, jobMarker>>
            ELSE /\ msgMarker' = IF dedupKey
                                 THEN [msgMarker EXCEPT ![hr.messageId] =
                                                            now + MSG_MARKER_TTL]
                                 ELSE msgMarker
                 /\ jobMarker' = [jobMarker EXCEPT ![hr.jobId] = now + JOB_MARKER_TTL]
                 /\ handlers' = [handlers EXCEPT ![h].pc = "set_processing",
                                                 ![h].messageId = NoMsg,
                                                 ![h].acted = TRUE]
    /\ UNCHANGED <<now, ticks, jobStatus, jobUpdates, records>>
    /\ UNCHANGED consumerOnlyVars
    /\ UNCHANGED xvars

\* Line 167: await redis.hset(`job:${jobId}`, "status", "processing")
HSetProcessing(h) ==
    /\ handlers[h].pc = "set_processing"
    /\ \E rejects \in BOOLEAN :
         IF rejects
         THEN /\ handlers' = [handlers EXCEPT ![h].pc = "catch_set"]
              /\ UNCHANGED jobStatus
         ELSE /\ jobStatus' = [jobStatus EXCEPT ![handlers[h].jobId] = "processing"]
              /\ handlers' = [handlers EXCEPT ![h].pc = "pub_processing",
                                              ![h].acted = TRUE]
    /\ UNCHANGED <<now, ticks, msgMarker, jobMarker, jobUpdates, records>>
    /\ UNCHANGED consumerOnlyVars
    /\ UNCHANGED xvars

Undefined == "undefined"

\* JSON.stringify({ jobId, status, error }); a field that is undefined or not
\* given is left out of the text.
JobUpdate(jobId, status, error) == [jobId |-> jobId, status |-> status, error |-> error]

\* Lines 171-176: the processing update is published.
HPubProcessing(h) ==
    /\ handlers[h].pc = "pub_processing"
    /\ \E rejects \in BOOLEAN :
         IF rejects
         THEN /\ handlers' = [handlers EXCEPT ![h].pc = "catch_set"]
              /\ UNCHANGED jobUpdates
         ELSE /\ jobUpdates' = jobUpdates (+) SetToBag({JobUpdate(handlers[h].jobId,
                                                                  "processing", Undefined)})
              /\ handlers' = [handlers EXCEPT ![h].pc = "e_deal", ![h].acted = TRUE]
    /\ UNCHANGED <<now, ticks, msgMarker, jobMarker, jobStatus, records>>
    /\ UNCHANGED consumerOnlyVars
    /\ UNCHANGED xvars

(***************************************************************************)
(* evaluateDealAndSaveResult, one step per await.                          *)
(***************************************************************************)
DbLookups == {"found", "missing", "throws"}
ERROR_MESSAGE == "error.message"

\* Lines 178-181 of the route and 19-44: evaluateDealAndSaveResult is called; the
\* deal is read outside the try block, so a rejection leaves the function and
\* is caught by the route.
EFindDeal(h) ==
    /\ handlers[h].pc = "e_deal"
    /\ \E outcome \in DbLookups :
         handlers' = [handlers EXCEPT ![h] =
            CASE outcome = "found" ->
                    [@ EXCEPT !.pc = "e_screener", !.acted = TRUE,
                              !.textThrew = FALSE, !.aggregated = FALSE]
              [] outcome = "missing" ->
                    Returns([@ EXCEPT !.acted = TRUE],
                            [success |-> FALSE, message |-> Undefined])
              [] outcome = "throws" -> [@ EXCEPT !.pc = "catch_set", !.acted = TRUE]]
    /\ UNCHANGED <<now, ticks, msgMarker, jobMarker, jobStatus, jobUpdates, records>>
    /\ UNCHANGED consumerOnlyVars
    /\ UNCHANGED xvars

\* Lines 47-58: await prismaDB.screener.findFirst; the screener found is handed
\* to the chunker.
EFindScreener(h) ==
    /\ handlers[h].pc = "e_screener"
    /\ \E outcome \in DbLookups, content \in Contents :
         handlers' = [handlers EXCEPT ![h] =
            CASE outcome = "found" -> [@ EXCEPT !.pc = "e_split", !.content = content]
              [] outcome = "missing" ->
                    Returns(@, [success |-> FALSE, message |-> Undefined])
              [] outcome = "throws" ->
                    Returns(@, [success |-> FALSE, message |-> ERROR_MESSAGE])]
    /\ UNCHANGED <<now, ticks, msgMarker, jobMarker, jobStatus, jobUpdates, records>>
    /\ UNCHANGED consumerOnlyVars
    /\ UNCHANGED xvars

\* Lines 60-64: await splitContentIntoChunks(screener.content); what the chunker
\* throws is caught at line 142.
ESplit(h) ==
    /\ handlers[h].pc = "e_split"
    /\ \E throws \in BOOLEAN :
         handlers' = [handlers EXCEPT ![h] =
            IF throws
            THEN Returns([@ EXCEPT !.content = ""],
                         [success |-> FALSE, message |-> ERROR_MESSAGE])
            ELSE [@ EXCEPT !.pc = "e_chunk",
                           !.chunks = splitContentIntoChunks(handlers[h].content),
                           !.idx = 1, !.sums = <<>>, !.content = ""]]
    /\ UNCHANGED <<now, ticks, msgMarker, jobMarker, jobStatus, jobUpdates, records>>
    /\ UNCHANGED consumerOnlyVars
    /\ UNCHANGED xvars

\* Lines 66-75: one iteration of for (const chunk of chunks); a generateText
\* that throws is caught at line 142.
EChunk(h) ==
    /\ handlers[h].pc = "e_chunk"
    /\ handlers[h].idx <= Len(handlers[h].chunks)
    /\ \E throws \in BOOLEAN :
         handlers' = [handlers EXCEPT ![h] =
            IF throws
            THEN Returns([@ EXCEPT !.textThrew = TRUE],
                         [success |-> FALSE, message |-> ERROR_MESSAGE])
            ELSE [@ EXCEPT !.sums = Append(@, GenText(handlers[h].chunks[handlers[h].idx])),
                           !.idx = @ + 1]]
    /\ UNCHANGED <<now, ticks, msgMarker, jobMarker, jobStatus, jobUpdates, records>>
    /\ UNCHANGED consumerOnlyVars
    /\ UNCHANGED xvars

\* Lines 76-103: the summaries are joined and generateObject is called.
EFinal(h) ==
    /\ handlers[h].pc = "e_chunk"
    /\ handlers[h].idx > Len(handlers[h].chunks)
    /\ \E outcome \in RouteGenObjectOutcomes :
         handlers' = [handlers EXCEPT ![h] =
            IF outcome.throws
            THEN Returns([@ EXCEPT !.aggregated = TRUE],
                         [success |-> FALSE, message |-> "Error generating summary"])
            ELSE [@ EXCEPT !.pc = "e_create", !.aggregated = TRUE,
                           !.combined = Join(handlers[h].sums),
                           !.verdict = outcome.object]]
    /\ UNCHANGED <<now, ticks, msgMarker, jobMarker, jobStatus, jobUpdates, records>>
    /\ UNCHANGED consumerOnlyVars
    /\ UNCHANGED xvars

\* The record is given evaluation.sentiment as it came.
MapSentimentUnchecked(sentiment) == sentiment

\* Lines 107-121.
MapSentiment(sentiment) ==
    CASE sentiment = "POSITIVE" -> "POSITIVE"
      [] sentiment = "NEGATIVE" -> "NEGATIVE"
      [] OTHER -> "NEUTRAL"

\* Math.round of a number given in tenths, in tenths.
MathRound(tenths) == ((tenths + 5) \div 10) * 10

\* The score column when null is stored.
NullScore == -1

\* Line 129: evaluation.score ? Math.round(evaluation.score) : null
MapScore(score) == IF score # 0 THEN MathRound(score) ELSE NullScore

\* Lines 125-133.
EvaluationRow(dealId, screenerId, evaluation, combined) ==
    [dealId |-> dealId, title |-> evaluation.title, explanation |-> evaluation.explanation,
     score |-> MapScore(evaluation.score), content |-> combined,
     sentiment |-> MapSentiment(evaluation.sentiment), screenerId |-> screenerId]

\* The deal and the screener every valid payload names.
DEAL_ID == "d1"
SCREENER_ID == "s1"

\* Lines 124-148: prismaDB.aiScreening.create
ECreate(h) ==
    /\ handlers[h].pc = "e_create"
    /\ LET hr == handlers[h] IN
       \E rejects \in BOOLEAN :
         IF rejects
         THEN /\ handlers' = [handlers EXCEPT ![h] =
                    Returns(@, [success |-> FALSE, message |-> ERROR_MESSAGE])]
              /\ UNCHANGED records
         ELSE /\ records' = records (+) SetToBag({EvaluationRow(DEAL_ID, SCREENER_ID,
                                                                hr.verdict, hr.combined)})
              /\ handlers' = [handlers EXCEPT ![h] =
                    Returns(@, [success |-> TRUE,
                                message |-> "Evaluation saved successfully"])]
    /\ UNCHANGED <<now, ticks, msgMarker, jobMarker, jobStatus, jobUpdates>>
    /\ UNCHANGED consumerOnlyVars
    /\ UNCHANGED xvars

(***************************************************************************)
(* The handler after evaluateDealAndSaveResult returned.                   *)
(***************************************************************************)
\* Lines 183-189 and 205: the status written is "failed" or "done".
HSetOutcome(h) ==
    /\ handlers[h].pc = "after_eval"
    /\ LET hr == handlers[h]
           status == IF hr.ev.success THEN "done" ELSE "failed"
       IN \E rejects \in BOOLEAN :
            IF rejects
            THEN /\ handlers' = [handlers EXCEPT ![h] = Forget([@ EXCEPT !.pc = "catch_set"])]
                 /\ UNCHANGED jobStatus
            ELSE /\ jobStatus' = [jobStatus EXCEPT ![hr.jobId] = status]
                 /\ handlers' = [handlers EXCEPT ![h] =
                                    Forget([@ EXCEPT !.pc = "pub_" \o status])]
    /\ UNCHANGED <<now, ticks, msgMarker, jobMarker, jobUpdates, records>>
    /\ UNCHANGED consumerOnlyVars
    /\ UNCHANGED xvars

\* Lines 190-201: the failure update is published and 500 is answered.
HPubFailed(h) ==
    /\ handlers[h].pc = "pub_failed"
    /\ \E rejects \in BOOLEAN :
         IF rejects
         THEN /\ handlers' = [handlers EXCEPT ![h].pc = "catch_set"]
              /\ UNCHANGED jobUpdates
         ELSE /\ jobUpdates' = jobUpdates (+) SetToBag({JobUpdate(handlers[h].jobId, "failed",
                                                        handlers[h].ev.message)})
              /\ handlers' = [handlers EXCEPT ![h] = Respond(@, 500)]
    /\ UNCHANGED <<now, ticks, msgMarker, jobMarker, jobStatus, records>>
    /\ UNCHANGED consumerOnlyVars
    /\ UNCHANGED xvars

\* Lines 209-214: the completion update is published and 204 is answered.
HPubDone(h) ==
    /\ handlers[h].pc = "pub_done"
    /\ \E rejects \in BOOLEAN :
         IF rejects
         THEN /\ handlers' = [handlers EXCEPT ![h].pc = "catch_set"]
              /\ UNCHANGED jobUpdates
         ELSE /\ jobUpdates' = jobUpdates (+) SetToBag({JobUpdate(handlers[h].jobId,
                                                                  "done", Undefined)})
              /\ handlers' = [handlers EXCEPT ![h] = Respond(@, 204)]
    /\ UNCHANGED <<now, ticks, msgMarker, jobMarker, jobStatus, records>>
    /\ UNCHANGED consumerOnlyVars
    /\ UNCHANGED xvars

\* Lines 215-222: the catch block; with a jobId the status "failed" is written.
HCatchSet(h) ==
    /\ handlers[h].pc = "catch_set"
    /\ LET hr == handlers[h] IN
       IF hr.jobId = Null
       THEN /\ handlers' = [handlers EXCEPT ![h] = Respond(@, 500)]
            /\ UNCHANGED jobStatus
       ELSE \E rejects \in BOOLEAN :
              IF rejects
              THEN /\ handlers' = [handlers EXCEPT ![h] = Respond(@, 500)]
                   /\ UNCHANGED jobStatus
              ELSE /\ jobStatus' = [jobStatus EXCEPT ![hr.jobId] = "failed"]
                   /\ handlers' = [handlers EXCEPT ![h].pc = "catch_pub",
                                                   ![h].acted = TRUE]
    /\ UNCHANGED <<now, ticks, msgMarker, jobMarker, jobUpdates, records>>
    /\ UNCHANGED consumerOnlyVars
    /\ UNCHANGED xvars

\* Lines 223-232: the catch block publishes "failed"; a rejection is logged;
\* 500 is answered.
HCatchPub(h) ==
    /\ handlers[h].pc = "catch_pub"
    /\ \E rejects \in BOOLEAN :
         IF rejects
         THEN /\ handlers' = [handlers EXCEPT ![h] = Respond(@, 500)]
              /\ UNCHANGED jobUpdates
         ELSE /\ jobUpdates' = jobUpdates (+) SetToBag({JobUpdate(handlers[h].jobId,
                                                                  "failed", Undefined)})
              /\ handlers' = [handlers EXCEPT ![h] = Respond(@, 500)]
    /\ UNCHANGED <<now, ticks, msgMarker, jobMarker, jobStatus, records>>
    /\ UNCHANGED consumerOnlyVars
    /\ UNCHANGED xvars

\* The commands a handler has sent to Redis and not yet been answered, by its
\* position: the two exists of Promise.all (lines 145-148) are sent together,
\* one of them only when the request has a messageId, and answered one after the
\* other; the MULTI is one exec;
\* every other await of the handler is on one command. An exists left unanswered
\* by a Promise.all that rejected stays outstanding beside them.
AwaitedCommands(hr) ==
    CASE hr.pc = "exists" -> IF hr.messageId # NoMsg THEN 2 ELSE 1
      [] hr.pc \in {"exists_job", "multi", "set_processing", "pub_processing", "after_eval",
                    "pub_failed", "pub_done", "catch_pub"} -> 1
      [] hr.pc = "catch_set" -> IF hr.jobId = Null THEN 0 ELSE 1
      [] OTHER -> 0

OutstandingCommands(hr) == AwaitedCommands(hr) + (IF hr.stray THEN 1 ELSE 0)

RECURSIVE SumOutstanding(_)
SumOutstanding(S) ==
    IF S = {} THEN 0
    ELSE LET h == CHOOSE x \in S : TRUE IN
         OutstandingCommands(handlers[h]) + SumOutstanding(S \ {h})

\* No consumer runs beside the route.
ConsumerOff ==
    /\ netUp = TRUE
    /\ redisOpen = TRUE
    /\ queue = <<>>
    /\ pc = "off"
    /\ retries = 0
    /\ processedCount = 0
    /\ errorCount = 0
    /\ consecutiveErrors = 0
    /\ popped = NoPayload
    /\ submission = NoSubmission
    /\ chunks = <<>>
    /\ idx = 1
    /\ summaries = <<>>
    /\ combinedSummary = ""
    /\ finalResult = NoVerdict
    /\ records = EmptyBag
    /\ published = EmptyBag
    /\ run = NoRun
    /\ started = EmptyBag

RouteInit == ConsumerOff /\ RouteQuiet /\ ExtrasQuiet

RouteNext ==
    \/ Tick
    \/ \E h \in Handlers : HReceive(h)
    \/ \E h \in Handlers : HExistsMessage(h)
    \/ \E h \in Handlers : HExists(h)
    \/ \E h \in Handlers : HExistsLate(h)
    \/ \E h \in Handlers : HMulti(h)
    \/ \E h \in Handlers : HSetProcessing(h)
    \/ \E h \in Handlers : HPubProcessing(h)
    \/ \E h \in Handlers : EFindDeal(h)
    \/ \E h \in Handlers : EFindScreener(h)
    \/ \E h \in Handlers : ESplit(h)
    \/ \E h \in Handlers : EChunk(h)
    \/ \E h \in Handlers : EFinal(h)
    \/ \E h \in Handlers : ECreate(h)
    \/ \E h \in Handlers : HSetOutcome(h)
    \/ \E h \in Handlers : HPubFailed(h)
    \/ \E h \in Handlers : HPubDone(h)
    \/ \E h \in Handlers : HCatchSet(h)
    \/ \E h \in Handlers : HCatchPub(h)

SpecRoute == RouteInit /\ [][RouteNext]_vars

(***************************************************************************)
(* evaluateDealAndSaveResult from the object of generateObject on: the     *)
(* mapping of the sentiment and the score and the create call, on any      *)
(* object.                                                                 *)
(***************************************************************************)
MaxScoreTenths == 25

\* The schema admits POSITIVE, NEGATIVE and NEUTRAL; the if and the default of
\* the switch (lines 108-121) are written for a sentiment that is absent or
\* anything else.
Sentiments == {"POSITIVE", "NEGATIVE", "NEUTRAL", "MIXED", Undefined}
Evaluations ==
    {[title |-> "t", score |-> s, sentiment |-> v, explanation |-> "e"] :
        s \in 0..MaxScoreTenths, v \in Sentiments}

\* A handler stands at line 103 with the object in evaluation.
MappingInit ==
    /\ ConsumerOff
    /\ ExtrasQuiet
    /\ now = 0
    /\ ticks = 0
    /\ msgMarker = [m \in MsgIds |-> 0]
    /\ jobMarker = [j \in JobIds |-> 0]
    /\ jobStatus = [j \in JobIds |-> "none"]
    /\ jobUpdates = EmptyBag
    /\ \E evaluation \in Evaluations :
         handlers = [h \in Handlers |->
                        IF h = "h1"
                        THEN [NoHandler EXCEPT !.pc = "e_create", !.verdict = evaluation,
                                               !.combined = "c"]
                        ELSE NoHandler]

MappingNext == \E h \in Handlers : ECreate(h)

SpecMapping == MappingInit /\ [][MappingNext]_vars

Init == ConsumerInit /\ RouteQuiet /\ ExtrasQuiet
Next == ConsumerNext
Spec == Init /\ [][Next]_vars

\* The sleeps of startWorker and safePopFromQueue, in ms, by the place of the
\* setTimeout: WORKER_DELAY_MS after a submission, 1000 after an empty pop,
\* REDIS_RETRY_DELAY after a failed reconnect or pop.
WORKER_DELAY_MS == 2000
REDIS_RETRY_DELAY == 5000
IDLE_DELAY_MS == 1000

SleepMs(at) ==
    CASE at = "worker_sleep" -> WORKER_DELAY_MS
      [] at = "idle_sleep" -> IDLE_DELAY_MS
      [] at \in {"loop_retry_sleep", "pop_sleep"} -> REDIS_RETRY_DELAY
      [] OTHER -> 0

\* The steps of startWorker and of what it calls: every await of the worker is
\* answered or rejected, and the event loop then runs the continuation.
ConsumerStep ==
    \/ StartConnect
    \/ StartPing
    \/ LoopHealth
    \/ LoopRetrySleep
    \/ PopHealth
    \/ \E at \in ReconnectSites : ReconnectDisconnect(at)
    \/ \E at \in ReconnectSites : ReconnectConnect(at)
    \/ \E at \in ReconnectSites : ReconnectPing(at)
    \/ \E at \in QueueStatusSites : QueueStatusPing(at)
    \/ \E at \in QueueStatusSites : QueueStatusLLen(at)
    \/ \E at \in QueueStatusSites : QueueStatusLIndex(at)
    \/ PopSleep
    \/ PopLPop
    \/ IdleSleep
    \/ Parse
    \/ Split
    \/ ChunkStep
    \/ ChunksDone
    \/ FinalSummary
    \/ Save
    \/ Publish
    \/ Return
    \/ WorkerSleep

\* The consumer with every external call of the worker returning or throwing; the
\* server is not required ever to be reachable.
MaxLiveQueue == 1
LiveInit == Init /\ Len(queue) <= MaxLiveQueue
SpecLive == LiveInit /\ [][Next]_vars /\ WF_vars(ConsumerStep)

(***************************************************************************)
(* process.on("SIGINT" | "SIGTERM")                                        *)
(***************************************************************************)
\* The signal arrives and its handler starts: it logs and calls redisClient.quit().
\* The handler runs between two steps of the worker, wherever the worker is.
SignalArrives ==
    /\ signal = "none"
    /\ pc # "exited"
    /\ signal' = "quitting"
    /\ UNCHANGED cvars
    /\ UNCHANGED rvars
    /\ UNCHANGED <<clientRetries, clientDelay, delayed, slept, served>>

\* await redisClient.quit() has settled: the client is closed, or quit() threw and
\* the catch logged it. The worker may have taken steps in between.
SignalQuit ==
    /\ signal = "quitting"
    /\ signal' = "quit"
    /\ redisOpen' = FALSE
    /\ UNCHANGED <<netUp, queue, pc, retries>>
    /\ UNCHANGED counterVars
    /\ UNCHANGED pipelineVars
    /\ UNCHANGED rvars
    /\ UNCHANGED <<clientRetries, clientDelay, delayed, slept, served>>

\* process.exit(0): the process ends where the worker stands.
SignalExit ==
    /\ signal = "quit"
    /\ signal' = "exited"
    /\ pc' = "exited"
    /\ UNCHANGED <<netUp, redisOpen, queue, retries>>
    /\ UNCHANGED counterVars
    /\ UNCHANGED pipelineVars
    /\ UNCHANGED rvars
    /\ UNCHANGED <<clientRetries, clientDelay, delayed, slept, served>>

SignalNext ==
    \/ ConsumerNext
    \/ SignalArrives
    \/ SignalQuit
    \/ SignalExit

\* The consumer with a SIGINT or SIGTERM arriving at any moment.
SpecSignal == Init /\ [][SignalNext]_vars

\* The consumer and the signal handler with every call of the worker returning
\* or throwing and process.exit(0) running once quit() has settled; quit()
\* itself, a command sent over the socket, may never settle.
SpecSignalLive ==
    Init /\ [][SignalNext]_vars /\ WF_vars(ConsumerStep) /\ WF_vars(SignalExit)

(***************************************************************************)
(* Bun.serve({ port, fetch })                                              *)
(***************************************************************************)
Pathnames == {"/health", "/", "/screen-deal"}

\* A fetch that answers for the state of the client: 503 while it is closed.
fetchOfClient(pathname) ==
    IF pathname = "/health" \/ pathname = "/"
    THEN IF redisOpen
         THEN [pathname |-> pathname, status |-> 200, body |-> "OK"]
         ELSE [pathname |-> pathname, status |-> 503, body |-> "Unavailable"]
    ELSE [pathname |-> pathname, status |-> 404, body |-> "Not Found"]

\* fetch(req): "OK" with 200 for /health and /, "Not Found" with 404 otherwise.
fetch(pathname) ==
    IF pathname = "/health" \/ pathname = "/"
    THEN [pathname |-> pathname, status |-> 200, body |-> "OK"]
    ELSE [pathname |-> pathname, status |-> 404, body |-> "Not Found"]

\* A request is answered. The server was started before startWorker was called
\* and its handler is synchronous: it runs between two steps of the worker.
HealthFetch ==
    /\ \E pathname \in Pathnames : served' = fetch(pathname)
    /\ UNCHANGED cvars
    /\ UNCHANGED rvars
    /\ UNCHANGED <<signal, clientRetries, clientDelay, delayed, slept>>

HealthNext ==
    \/ ConsumerNext
    \/ HealthFetch

\* The consumer with requests arriving at the HTTP server at any moment.
SpecHealth == LiveInit /\ [][HealthNext]_vars

\* processContentChunks alone, on any array of chunks.
InitChunks == ChunksInit /\ RouteQuiet /\ ExtrasQuiet
SpecChunks == InitChunks /\ [][ChunksNext]_vars

(***************************************************************************)
(* Properties of the queue consumer.                                       *)
(***************************************************************************)
RECURSIVE SumCopies(_, _)
SumCopies(B, S) ==
    IF S = {} THEN 0
    ELSE LET x == CHOOSE y \in S : TRUE IN CopiesIn(x, B) + SumCopies(B, S \ {x})
\* The number of rows created for a submission id.
RowsFor(id) == SumCopies(records, {r \in BagToSet(records) : r.dealId = id})
\* The number of messages of a status published for a submission id.
PublishedFor(id, status) ==
    SumCopies(published,
              {m \in BagToSet(published) : m.productId = id /\ m.status = status})
\* The number of messages of a status the run published.
RunPubs(status) == Cardinality({i \in DOMAIN run.pubs : run.pubs[i].status = status})
Returned == pc = "ps_return"

\* C1 (as claimed): of the payloads carrying one submission id the pipeline runs
\* only for the first: one run, at most one row and at most one "done" message
\* per id.
C1_DuplicateSubmissionSkipped ==
    \A id \in Ids :
        /\ CopiesIn(id, started) <= 1
        /\ RowsFor(id) <= 1
        /\ PublishedFor(id, "done") <= 1

\* C2 (as claimed): a request that arrived while a marker of its messageId or of
\* its jobId was alive has been answered 204 and has set no marker, written no
\* job status, published nothing and has not called evaluateDealAndSaveResult.
C2_DuplicateAnsweredWithoutEffects ==
    \A h \in Handlers :
        (handlers[h].pc = "responded" /\ handlers[h].markerAtCheck) =>
            /\ handlers[h].response = 204
            /\ ~handlers[h].acted

\* The handler has passed the duplicate check and evaluateDealAndSaveResult has
\* been called for it and has not yet been looked at.
ReachedEvaluation(h) ==
    /\ handlers[h].checked = "passed"
    /\ handlers[h].pc \in {"e_deal", "e_screener", "e_split", "e_chunk", "e_create",
                           "after_eval"}

\* C3 (as claimed): of two requests for one jobId that are handled at the same
\* time, at most one passes the duplicate check and reaches
\* evaluateDealAndSaveResult.
C3_AtMostOnePassesCheck ==
    \A h1, h2 \in Handlers :
        (h1 # h2 /\ handlers[h1].jobId # Null /\ handlers[h1].jobId = handlers[h2].jobId) =>
            ~(ReachedEvaluation(h1) /\ ReachedEvaluation(h2))

\* C4 (as claimed): processContentChunks returns one summary per chunk of the
\* array it was given, empty-string chunks included.
C4_OneSummaryPerChunk ==
    pc \in {"pcc_returned", "pcc002_returned"} => Len(summaries) = Len(chunks)

\* C5 (as claimed): in evaluateDealAndSaveResult a generateText call that threw
\* does not end the evaluation: the loop goes on and generateObject is called.
C5_ChunkFailureSwallowed ==
    \A h \in Handlers :
        handlers[h].textThrew => (handlers[h].pc = "e_chunk" \/ handlers[h].aggregated)

\* C6 (as claimed): a run whose aggregation failed has made no create call, has
\* published no "done" message and has published exactly one "failed" message.
C6_AggregationFailureNotified ==
    (Returned /\ run.nObj = 1 /\ finalResult = NoVerdict) =>
        /\ run.nCreate = 0
        /\ BagCardinality(records) = run.rows0
        /\ RunPubs("done") = 0
        /\ RunPubs("failed") = 1

\* C7 (as claimed): a run for empty content returns false, calls neither
\* generateText nor generateObject nor create, and publishes exactly one message,
\* with status "failed".
C7_EmptyContentNotified ==
    (Returned /\ submission.screenerContent = "") =>
        /\ run.ret = "false"
        /\ run.nText = 0 /\ run.nObj = 0 /\ run.nCreate = 0
        /\ Len(run.pubs) = 1
        /\ RunPubs("failed") = 1

\* C8: a run that returns true has made exactly one create call, which succeeded
\* and added the row of its submission id, after exactly one generateObject call
\* whose argument joins one summary per chunk, each the chunk's text or the
\* sentinel; a run that returns false has added no row.
C8_OneRecordPerSuccessfulRun ==
    Returned =>
        /\ run.ret = "true" =>
             /\ run.nCreate = 1 /\ run.nCreated = 1
             /\ BagCardinality(records) = run.rows0 + 1
             /\ BagIn(ScreeningRow(run.id, finalResult, run.aggArg), records)
             /\ run.nObj = 1
             /\ Len(summaries) = Len(chunks)
             /\ \A i \in DOMAIN summaries :
                    summaries[i] \in {GenText(chunks[i]), ERROR_SENTINEL}
             /\ run.aggArg = Join(summaries)
        /\ run.ret = "false" =>
             /\ run.nCreated = 0
             /\ BagCardinality(records) = run.rows0

C8_Witness ==
    /\ Returned /\ run.ret = "true"
    /\ Len(chunks) = 2
    /\ summaries = <<GenText(chunks[1]), ERROR_SENTINEL>>

\* C9: a run whose create call threw has made exactly one create call, returns
\* false and has published nothing.
C9_SaveFailureNotRetried ==
    (Returned /\ run.nCreate > run.nCreated) =>
        /\ run.nCreate = 1
        /\ run.ret = "false"
        /\ run.pubs = <<>>
        /\ BagCardinality(published) = run.pubs0
        /\ BagCardinality(records) = run.rows0

C9_Witness == Returned /\ run.nObj = 1 /\ finalResult # NoVerdict /\ run.nCreated = 0

\* C10: a run that saved its row returns true, whether or not the publish threw,
\* and startWorker then counts it in processedCount and not in errorCount.
C10_PublishFailureKeepsSuccess ==
    [][(Returned /\ pc' # pc /\ run.nCreated >= 1) =>
           /\ run.ret = "true"
           /\ processedCount' = processedCount + 1
           /\ errorCount' = errorCount]_vars

C10_Witness == Returned /\ run.nCreated = 1 /\ run.pubThrew /\ run.ret = "true"

\* C11: a payload that was popped and decoded, whatever happens in the stages of
\* processSubmission, brings the loop back to its head, and startWorker never
\* ends because of it: no state of the pipeline is left for "returned".
C11_LoopReturnsToReady ==
    /\ (pc \in {"parse", "ps_split", "pcc_loop", "ps_final", "ps_save", "ps_publish",
                 "ps_return"}) ~> (pc = "loop_health")
    /\ [][pc' = "returned" => pc \in {"start", "start_ping", "returned"}]_vars

C11_Witness ==
    /\ pc = "loop_health"
    /\ started # EmptyBag /\ processedCount = 0 /\ errorCount >= 1
\* C12: once startWorker is in its loop no failed ping, reconnect or pop and no
\* closing of the client ends it, and when the server stays reachable from some
\* point on the worker is again and again about to pop over an open client.
C12_TransportFailuresNeverFatal ==
    /\ [][pc \notin {"start", "start_ping", "returned", "exited"}
             => pc' \notin {"returned", "exited"}]_vars
    /\ (<>(pc = "loop_health") /\ <>[]netUp) => []<>(pc = "pop_lpop" /\ redisOpen /\ netUp)

C12_Witness == pc = "pop_lpop" /\ redisOpen /\ netUp /\ retries >= 1
\* C13: when the server is reachable from some point on, the worker that was
\* started reaches the head of its polling loop, however its first attempts to
\* connect and to ping went.
C13_StartKeepsAttempting == (<>[]netUp) => <>(pc = "loop_health")

\* C14: every failed attempt to connect is followed by another attempt, after a
\* delay that is not below the delay before it and that stays at the cap once the
\* cap was reached.
C14_BackoffNeverStops ==
    [][(/\ pc \in {"start", "loop_connect", "pop_connect"} /\ ~netUp
        /\ <<pc, clientRetries>>' # <<pc, clientRetries>>) =>
           /\ pc' = pc
           /\ clientDelay' >= clientDelay
           /\ (clientDelay = RECONNECT_CAP_MS => clientDelay' = RECONNECT_CAP_MS)]_vars
\* C15: a pop that failed and a submission whose pipeline returned false each add
\* one to the count of consecutive failures, from which the extended cooldown
\* and the forced reconnect are decided.
C15_ConsecutiveFailuresCounted ==
    [][(/\ \/ pc = "ps_return" /\ run.ret = "false"
           \/ pc = "pop_lpop" /\ ~(redisOpen /\ netUp)
        /\ pc' # pc) =>
           consecutiveErrors' = consecutiveErrors + 1]_vars

\* C16: the worker is about to pop only when the delay of WORKER_DELAY_MS has
\* elapsed since the last payload was removed from the queue.
C16_DelayAfterEveryPayload == pc = "pop_lpop" => delayed
\* C17: a pop that finds the queue empty changes nothing but the position of the
\* worker, which is the sleep of 1000 ms, and the only step from that sleep is to
\* the head of the loop: no stage runs, no record, no message, no marker.
C17_EmptyQueueIdles ==
    [][/\ (pc = "pop_lpop" /\ redisOpen /\ netUp /\ queue = <<>> /\ pc' # pc) =>
           /\ pc' = "idle_sleep"
           /\ SleepMs(pc') = IDLE_DELAY_MS
           /\ UNCHANGED <<queue, pipelineVars, counterVars, msgMarker, jobMarker>>
       /\ (pc = "idle_sleep" /\ pc' # pc) => pc' = "loop_health"]_vars

C17_Witness ==
    /\ pc = "idle_sleep" /\ queue = <<>> /\ redisOpen /\ netUp
    /\ processedCount >= 1

\* C18: a payload that does not decode is dropped: the pop that removes it hands
\* it to the decode step, and the step that finds it adds one to errorCount and
\* goes to the head of the loop; no run starts, no record and no message is
\* written and the payload is not put back.
C18_UndecodablePayloadDropped ==
    [][/\ (queue' # queue /\ ~JsonParse(Head(queue)).ok) =>
           (pc' = "parse" /\ popped' = Head(queue))
       /\ (pc = "parse" /\ ~JsonParse(popped).ok /\ pc' # pc) =>
           /\ errorCount' = errorCount + 1
           /\ pc' = "loop_health"
           /\ popped' = NoPayload
           /\ UNCHANGED <<queue, processedCount, submission, run, started, chunks,
                          records, published>>]_vars

\* C19: the worker is at the pop, or between iterations, only with no submission
\* in the pipeline, and inside processContentChunks the calls of generateText made
\* are never more than the iterations begun: one call at a time.
C19_OneSubmissionAtATime ==
    /\ (pc \in {"loop_health", "loop_disconnect", "loop_connect", "loop_ping",
                 "loop_cqs_ping", "loop_cqs_llen", "loop_cqs_lindex", "loop_retry_sleep",
                 "pop_health", "pop_disconnect", "pop_connect", "pop_ping", "pop_sleep",
                 "pop_lpop", "idle_sleep", "worker_sleep"}) =>
           (run = NoRun /\ submission = NoSubmission)
    /\ (pc = "parse") => (run = NoRun /\ popped # NoPayload)
    /\ (pc = "pcc_loop") => run.nText <= idx - 1

C19_Witness == pc = "pop_lpop" /\ started # EmptyBag /\ queue # <<>> /\ redisOpen /\ netUp
\* C20: the process exits on a signal only with no submission in the pipeline, or
\* with one that stands at the boundary of a stage: never with processContentChunks
\* part of the way through its chunks.
C20_NoExitMidStage ==
    pc = "exited" => ~(run.ret = "running" /\ 1 < idx /\ idx <= Len(chunks))
\* C21: once a termination signal has arrived the process exits, whether or not
\* redisClient.quit() ever settles.
C21_SignalAlwaysExits == (signal # "none") ~> (pc = "exited")
\* C22: a request for /health or / is answered 200 OK wherever the worker stands,
\* in its pipeline, in a sleep, with the client closed or after startWorker has
\* returned, and answering it changes nothing of the worker.
C22_HealthAlwaysServed ==
    /\ [](ENABLED HealthFetch)
    /\ [][served' # served =>
             /\ served'.pathname \in {"/health", "/"} =>
                    (served'.status = 200 /\ served'.body = "OK")
             /\ UNCHANGED <<cvars, rvars, signal, clientRetries, clientDelay, delayed,
                          slept>>]_vars

C22_Witness ==
    /\ served.pathname = "/health" /\ served.status = 200
    /\ pc = "pcc_loop" /\ ~redisOpen /\ ~netUp
\* C23: a handler is past the setting of the markers, in its status writes, its
\* publishes or its evaluation, only while the marker of its job is set, and
\* every write of a job status and every publish for a job happens while the
\* marker of that job is set.
C23_MarkersBeforeWork ==
    /\ [](\A h \in Handlers :
            handlers[h].pc \in {"set_processing", "pub_processing", "e_deal", "e_screener",
                                "e_chunk", "e_create", "after_eval"}
                => Exists(jobMarker[handlers[h].jobId]) = 1)
    /\ [][\A j \in JobIds :
            (\/ jobStatus'[j] # jobStatus[j]
             \/ \E u \in BagToSet(jobUpdates') :
                   u.jobId = j /\ CopiesIn(u, jobUpdates') > CopiesIn(u, jobUpdates))
                => Exists(jobMarker[j]) = 1]_vars
\* C24: an update published on job-updates has a status among processing, done
\* and failed, which is the status held by the hash of its job when it is
\* published, and the first status a job gets is processing.
C24_StatusProtocol ==
    [][\A j \in JobIds :
          /\ \A u \in BagToSet(jobUpdates') :
                (u.jobId = j /\ CopiesIn(u, jobUpdates') > CopiesIn(u, jobUpdates)) =>
                    /\ u.status \in {"processing", "done", "failed"}
                    /\ u.status = jobStatus[j]
          /\ (jobStatus[j] = "none" /\ jobStatus'[j] # "none") =>
                jobStatus'[j] = "processing"]_vars
\* C25: every row created by evaluateDealAndSaveResult has a sentiment among
\* POSITIVE, NEGATIVE and NEUTRAL: POSITIVE and NEGATIVE as the object had them,
\* NEUTRAL for an object whose sentiment is absent or anything else.
C25_SentimentDefaultsToNeutral ==
    [][\A h \in Handlers :
          (handlers[h].pc = "e_create" /\ records' # records /\ handlers'[h] # handlers[h]) =>
              \E r \in BagToSet(records') :
                 /\ CopiesIn(r, records') > CopiesIn(r, records)
                 /\ r.sentiment \in {"POSITIVE", "NEGATIVE", "NEUTRAL"}
                 /\ r.sentiment = IF handlers[h].verdict.sentiment \in {"POSITIVE", "NEGATIVE"}
                                  THEN handlers[h].verdict.sentiment
                                  ELSE "NEUTRAL"]_vars

C25_Witness ==
    \E r \in BagToSet(records) : r.sentiment = "NEUTRAL" /\ r.score = 20
\* C26: an evaluation whose chunker returned no chunks calls neither
\* generateObject nor create: no handler stands at the create call, with the
\* object of generateObject in hand, for an empty array of chunks.
C26_EmptyChunksFailBothCallers ==
    \A h \in Handlers :
        handlers[h].pc = "e_create" => handlers[h].chunks # <<>>
\* C27: rows are only ever added: every step leaves each row created before it
\* in place, as many times as it was there.
C27_RecordsInsertOnly ==
    [][\A r \in BagToSet(records) : CopiesIn(r, records') >= CopiesIn(r, records)]_vars

C27_Witness ==
    /\ pc = "ps_return" /\ run.ret = "false"
    /\ \E r \in BagToSet(records) : r.dealId = submission.id
\* C28: at most one command sent to Redis is waiting for its answer, over all
\* the requests being handled.
C28_OneTransportRequestAtATime == SumOutstanding(Handlers) <= 1
\* C29: the queue changes only by a pop of the worker, and every pop removes the
\* element at the head of the list, index 0, whatever attempt of
\* safePopFromQueue issues it; the submission the worker goes on to decode is
\* that element.
C29_PopsFromOneEnd ==
    [][queue' # queue =>
          /\ pc = "pop_lpop"
          /\ queue # <<>>
          /\ queue' = Tail(queue)
          /\ (pc' = "parse" => popped' = Head(queue))]_vars

C29_Witness ==
    /\ pc = "parse" /\ queue = <<>>
    /\ errorCount + processedCount >= 1
\* C30 (as claimed): every message published for a submission is on the one
\* completion channel and has the fields userId, submissionId, status and name,
\* with the user id, the id and the name of the submission.
C30_EventFieldsAsClaimed ==
    [][\A m \in BagToSet(published') :
          CopiesIn(m, published') > CopiesIn(m, published) =>
              /\ m.channel = REDIS_PUBLISH_CHANNEL
              /\ DOMAIN m = {"channel", "userId", "submissionId", "status", "name"}
              /\ m.userId = submission.userId
              /\ m.submissionId = submission.id
              /\ m.name = submission.name]_vars

\* C30 (amended): every message published for a submission is on the one
\* completion channel and has the fields userId, productId, status and
\* productName, with the user id, the id and the name of the submission.
C30_EventFields ==
    [][\A m \in BagToSet(published') :
          CopiesIn(m, published') > CopiesIn(m, published) =>
              /\ m.channel = REDIS_PUBLISH_CHANNEL
              /\ DOMAIN m = {"channel", "userId", "productId", "status", "productName"}
              /\ m.userId = submission.userId
              /\ m.productId = submission.id
              /\ m.productName = submission.name]_vars

C30_Witness ==
    /\ pc = "ps_return" /\ ~run.pubThrew
    /\ \E m \in BagToSet(published) : m.productId = submission.id
\* C31: nothing is ever pushed onto the queue by the worker: after every step the
\* queue is what it was, or what it was without some of its first elements, so a
\* payload that was popped, whatever became of it, is not found there again.
C31_NeverRequeued ==
    [][\E k \in 0..Len(queue) : queue' = SubSeq(queue, k + 1, Len(queue))]_vars

C31_Witness ==
    /\ pc = "worker_sleep" /\ queue = <<>>
    /\ started # EmptyBag /\ processedCount = 0 /\ errorCount = 1
\* C32: the worker comes to its lPop only from the health check of the same
\* attempt when isRedisHealthy answered true, or from the ping of reconnectRedis
\* when it was answered; an attempt whose reconnectRedis answered false counts a
\* retry, issues no pop and leaves the queue as it is.
C32_PopOnlyWhenReady ==
    [][/\ (pc' = "pop_lpop" /\ pc # "pop_lpop") =>
           /\ pc \in {"pop_health", "pop_ping"}
           /\ redisOpen /\ netUp /\ redisOpen'
       /\ (pc \in {"pop_connect", "pop_ping"} /\ pc' \notin {pc, "pop_ping", "pop_lpop"}) =>
           /\ pc' = "pop_sleep" /\ retries' = retries + 1
           /\ queue' = queue /\ popped' = popped]_vars

C32_Witness == pc = "pop_lpop" /\ redisOpen /\ retries = 2 /\ queue # <<>>
\* C33: a run that has published a message has created its row before, and for
\* every submission id there are at least as many rows as "done" messages: no
\* "done" is ever published for an id without a row.
C33_DoneOnlyAfterRecord ==
    /\ (run # NoRun /\ Len(run.pubs) > 0) =>
           (run.nCreated >= 1 /\ RowsFor(run.id) >= 1)
    /\ \A id \in Ids : PublishedFor(id, "done") <= RowsFor(id)

C33_Witness == pc = "ps_return" /\ Len(run.pubs) = 1 /\ run.nCreated = 1
\* C34: a request whose evaluation returned success writes no status failed, in
\* its catch block or elsewhere, and when a request that has evaluated is
\* answered the status of its job is done exactly when the evaluation returned
\* success.
C34_DoneIsFinal ==
    [][\A h \in Handlers :
          LET hr == handlers[h] IN
          (hr.ev # NoEval /\ handlers'[h] # hr) =>
              /\ (hr.pc = "catch_set" /\ hr.ev.success) =>
                     ~(jobStatus'[hr.jobId] = "failed" /\ jobStatus[hr.jobId] # "failed")
              /\ (handlers'[h].pc = "responded") =>
                     (jobStatus'[hr.jobId] = "done" <=> hr.ev.success)]_vars
\* C35: when no request is being handled no job has the status processing: every
\* handler that wrote processing has replaced it by done or failed before it
\* answered.
C35_NoJobLeftProcessing ==
    (\A h \in Handlers : handlers[h].pc \in {"idle", "responded"}) =>
        \A j \in JobIds : jobStatus[j] # "processing"
\* C36: no step removes a marker or shortens its life, and a request that comes
\* to the duplicate check while the marker of its job is alive and the job's
\* status is failed is answered 204 by that check, the status staying failed.
C36_MarkersOutliveFailure ==
    [][/\ \A j \in JobIds : jobMarker'[j] >= jobMarker[j]
       /\ \A m \in MsgIds : msgMarker'[m] >= msgMarker[m]
       /\ \A h \in Handlers :
             LET hr == handlers[h] IN
             (/\ \/ hr.pc = "exists" /\ hr.messageId = NoMsg
                 \/ hr.pc = "exists_job"
              /\ handlers'[h].pc # hr.pc
              /\ Exists(jobMarker[hr.jobId]) = 1
              /\ jobStatus[hr.jobId] = "failed") =>
                 /\ handlers'[h].pc = "responded"
                 /\ handlers'[h].response = 204
                 /\ jobStatus' = jobStatus]_vars
\* C37: the worker is about to issue an lPop only when one of its sleeps has
\* elapsed since the lPop before it.
C37_SleepBetweenPops == pc = "pop_lpop" => slept
\* C38: safePopFromQueue always returns and never throws: at most MAX_RETRIES
\* attempts fail inside one call, the call is left only with the payload of a pop
\* that succeeded or with null, and under a fair scheduler it is always left.
InSafePop ==
    pc \in {"pop_health", "pop_disconnect", "pop_connect", "pop_ping", "pop_sleep", "pop_lpop"}

C38_SafePopReturns ==
    /\ [](InSafePop => /\ retries <= MAX_RETRIES
                       /\ (pc # "pop_sleep" => retries < MAX_RETRIES))
    /\ [][(InSafePop /\ ~InSafePop') =>
             \/ /\ pc = "pop_lpop" /\ redisOpen /\ netUp /\ queue # <<>>
                /\ queue' = Tail(queue)
                /\ IF Truthy(Head(queue)) THEN pc' = "parse" /\ popped' = Head(queue)
                   ELSE pc' = "idle_sleep" /\ popped' = NoPayload
             \/ /\ pc = "pop_lpop" /\ redisOpen /\ netUp /\ queue = <<>>
                /\ pc' = "idle_sleep" /\ popped' = NoPayload
             \/ /\ retries + (IF pc = "pop_lpop" THEN 1 ELSE 0) = MAX_RETRIES
                /\ pc' = "idle_sleep" /\ popped' = NoPayload /\ queue' = queue]_vars
    /\ (InSafePop ~> ~InSafePop)

\* Witness: the third attempt of one call has failed; the call is about to
\* return null.
C38_Witness == pc = "pop_sleep" /\ retries = MAX_RETRIES /\ queue # <<>>
\* C39: a request answered 503 or 400 is answered by the checks ahead of the
\* duplicate check, and that step leaves every marker, every job status, the
\* published updates and the rows as they were; the request has made no duplicate
\* check and started no evaluation.
C39_RejectedLeavesStore ==
    [][\A h \in Handlers :
          (handlers'[h] # handlers[h] /\ handlers'[h].response \in {400, 503}) =>
              /\ handlers[h].pc = "idle" /\ handlers'[h].pc = "responded"
              /\ handlers'[h].checked = "none" /\ ~handlers'[h].acted
              /\ handlers'[h].jobId = Null /\ handlers'[h].ev = NoEval
              /\ UNCHANGED <<msgMarker, jobMarker, jobStatus, jobUpdates, records>>]_vars

\* Witness: one request was turned away with 400 and another with 503 while the
\* store holds nothing.
C39_Witness ==
    /\ handlers["h1"].pc = "responded" /\ handlers["h1"].response = 400
    /\ handlers["h2"].pc = "responded" /\ handlers["h2"].response = 503
    /\ \A j \in JobIds : jobMarker[j] = 0 /\ jobStatus[j] = "none"
    /\ \A m \in MsgIds : msgMarker[m] = 0
    /\ jobUpdates = EmptyBag /\ records = EmptyBag
\* C40: every row created by evaluateDealAndSaveResult for an object whose score
\* is an integer, 0 included, carries that score and not null.
C40_IntegerScoreStored ==
    [][\A h \in Handlers :
          (/\ handlers[h].pc = "e_create" /\ records' # records
           /\ handlers'[h] # handlers[h] /\ handlers[h].verdict.score % 10 = 0) =>
              \E r \in BagToSet(records') :
                 /\ CopiesIn(r, records') > CopiesIn(r, records)
                 /\ r.score # NullScore
                 /\ r.score = handlers[h].verdict.score]_vars
====
